---- MODULE Spec2Model ----
(***************************************************************************)
(* A model of PyZX: the Z80 interpreter (z80.py), the clock-and-bus layer  *)
(* (bus_access.py, spectrum.py) and the frame loop that drives them.       *)
(*                                                                         *)
(* Three specifications share the variables:                               *)
(*   Spec      - Z80.execute() called repeatedly on one of the two buses   *)
(*   BusSpec   - the timed bus primitives called directly                  *)
(*   ClockSpec - the T-state counter walked one T-state at a time          *)
(***************************************************************************)
EXTENDS Integers, Sequences, FiniteSets, TLC

VARIABLES
    cpu,        \* the Z80 object's fields (a record)
    bus,        \* the ClockAndBusAccess object's fields (a record)
    mem,        \* Memory: address -> byte, sparse; an absent address holds 0
    pc,         \* position inside Z80.execute: "idle", "fetch" or "check"
    limit,      \* states_limit of the running execute() call
    event,      \* the last thing that happened (instruction, acceptance, bus call)
    prevEvent,  \* the event before it
    steps,      \* number of loop iterations / bus calls made so far
    nmis        \* number of calls of trigger_NMI() made so far

vars == <<cpu, bus, mem, pc, limit, event, prevEvent, steps, nmis>>

-----------------------------------------------------------------------------
(* Program constants *)

TSTATES_PER_INTERRUPT == 69888
TSTATES_PER_LINE == 224
SCREEN_WIDTH == 256
SCREEN_HEIGHT == 192
INTERRUPT_LENGTH == 24

IM0 == 0
IM1 == 1
IM2 == 2

\* the two bus classes
Plain == "ClockAndBusAccess"
ZX48 == "ZXSpectrum48ClockAndBusAccess"

-----------------------------------------------------------------------------
(* Bounds of the model *)

MaxBusOps == 2      \* bus calls made in a row in BusSpec
MaxSteps == 6       \* iterations of the execute loop in Spec
MaxNMIs == 1        \* calls of trigger_NMI() in Spec

-----------------------------------------------------------------------------
(* Memory (memory.py): 64 KiB, the low 16 KiB read-only *)

MemPeekb(m, address) == IF address \in DOMAIN m THEN m[address] ELSE 0

\* peeksb: the byte as a signed number
MemPeeksb(m, address) ==
    IF MemPeekb(m, address) >= 128 THEN MemPeekb(m, address) - 256 ELSE MemPeekb(m, address)

MemPokeb(m, address, value) ==
    IF address < 16384
    THEN m
    ELSE [x \in (DOMAIN m) \cup {address} |-> IF x = address THEN value ELSE m[x]]

-----------------------------------------------------------------------------
(* ZXSpectrum48ClockAndBusAccess.__init__: the contention table and the    *)
(* schedule of screen bytes                                                *)

\* len(delay_tstates)
DelayLen == TSTATES_PER_INTERRUPT + 200

\* len(screen_byte_tstate)
ScreenLen == 1 + (SCREEN_HEIGHT * SCREEN_WIDTH) \div 16

\* for i in range(14335, 57247, TSTATES_PER_LINE)
LineStarts ==
    {14335 + TSTATES_PER_LINE * k : k \in 0 .. ((57247 - 14335 - 1) \div TSTATES_PER_LINE)}

\* for n in range(0, 128, 8)
GroupOffsets == {8 * g : g \in 0 .. ((128 - 1) \div 8)}

\* the values of `frame = i + n` over both loops
GroupStarts == {i + n : i \in LineStarts, n \in GroupOffsets}

\* delay_tstates[t] after construction: 6,5,4,3,2,1,0,0 written from each
\* `frame`; every other entry keeps the 0 of the initial list
MutDelayShifted(t) ==
    IF t \in GroupStarts THEN 5
    ELSE IF (t - 1) \in GroupStarts THEN 4
    ELSE IF (t - 2) \in GroupStarts THEN 3
    ELSE IF (t - 3) \in GroupStarts THEN 2
    ELSE IF (t - 4) \in GroupStarts THEN 1
    ELSE 0

DelayTstates(t) ==
    IF t \in GroupStarts THEN 6
    ELSE IF (t - 1) \in GroupStarts THEN 5
    ELSE IF (t - 2) \in GroupStarts THEN 4
    ELSE IF (t - 3) \in GroupStarts THEN 3
    ELSE IF (t - 4) \in GroupStarts THEN 2
    ELSE IF (t - 5) \in GroupStarts THEN 1
    ELSE 0

\* screen_byte_tstate[inx] after construction: entry number inx of the loops
\* is `frame + 2`; the entries never written keep TSTATES_PER_INTERRUPT * 2
GroupsPerLine == Cardinality(GroupOffsets)

ScreenBytesWritten == Cardinality(LineStarts) * GroupsPerLine

\* mutant: the entries never written hold TSTATES_PER_INTERRUPT
MutScreenSentinelOneFrame(inx) ==
    IF inx < ScreenBytesWritten
    THEN 14335 + TSTATES_PER_LINE * (inx \div GroupsPerLine) + 8 * (inx % GroupsPerLine) + 2
    ELSE TSTATES_PER_INTERRUPT

ScreenByteTstate(inx) ==
    IF inx < ScreenBytesWritten
    THEN 14335 + TSTATES_PER_LINE * (inx \div GroupsPerLine) + 8 * (inx % GroupsPerLine) + 2
    ELSE TSTATES_PER_INTERRUPT * 2

-----------------------------------------------------------------------------
(* The bus: bus.cls is the class of the object, the other fields are its   *)
(* attributes                                                              *)

IsContended(address) == 16384 <= address /\ address < 32768

\* if self.tstates >= self.screen_byte_tstate[self.next_screen_byte_index]: ...
ScreenIf(b) ==
    IF b.tstates >= ScreenByteTstate(b.next_screen_byte_index)
    THEN [b EXCEPT !.next_screen_byte_index = @ + 1]
    ELSE b

\* while self.tstates >= self.screen_byte_tstate[self.next_screen_byte_index]: ...
\* the loop stops at the first index at or after the current one whose entry
\* lies beyond the counter
ScreenWhile(b) ==
    [b EXCEPT !.next_screen_byte_index =
        CHOOSE j \in @ .. (ScreenLen - 1) :
            /\ b.tstates < ScreenByteTstate(j)
            /\ \A k \in b.next_screen_byte_index .. (j - 1) : b.tstates >= ScreenByteTstate(k)]

\* self.tstates += self.delay_tstates[self.tstates] + n
AddDelayed(b, n) == [b EXCEPT !.tstates = @ + DelayTstates(@) + n]

AddPlain(b, n) == [b EXCEPT !.tstates = @ + n]

\* one timed access of the contended bus: the `if 16384 <= address < 32768`
\* statement followed by the screen-byte `if`
ZXAccess(b, address, n) ==
    ScreenIf(IF IsContended(address) THEN AddDelayed(b, n) ELSE AddPlain(b, n))

fetch_opcode(b, address) ==
    IF b.cls = ZX48 THEN ZXAccess(b, address, 4) ELSE AddPlain(b, 4)

peekb(b, address) ==
    IF b.cls = ZX48 THEN ZXAccess(b, address, 3) ELSE AddPlain(b, 3)

peeksb(b, address) ==
    IF b.cls = ZX48 THEN ZXAccess(b, address, 3) ELSE AddPlain(b, 3)

pokeb(b, address) ==
    IF b.cls = ZX48 THEN ZXAccess(b, address, 3) ELSE AddPlain(b, 3)

peekw(b, address) ==
    IF b.cls = ZX48
    THEN ZXAccess(ZXAccess(b, address, 3), (address + 1) % 65536, 3)
    ELSE peekb(peekb(b, address), (address + 1) % 65536)

\* the base class writes both bytes straight to memory and never touches tstates
pokew(b, address) ==
    IF b.cls = ZX48
    THEN ZXAccess(ZXAccess(b, address, 3), (address + 1) % 65536, 3)
    ELSE b

RECURSIVE ZXBusCycles(_, _)
\* for i in range(tstates): self.tstates += (self.delay_tstates[self.tstates] + 1)
ZXBusCycles(b, n) ==
    IF n <= 0 THEN b ELSE ZXBusCycles(AddDelayed(b, 1), n - 1)

MutAddressOnBusOnce(b, address, n) ==
    IF b.cls = ZX48
    THEN ScreenWhile(IF IsContended(address) THEN AddDelayed(b, n) ELSE AddPlain(b, n))
    ELSE AddPlain(b, n)

address_on_bus(b, address, n) ==
    IF b.cls = ZX48
    THEN ScreenWhile(IF IsContended(address) THEN ZXBusCycles(b, n) ELSE AddPlain(b, n))
    ELSE AddPlain(b, n)

interrupt_handling_time(b, n) ==
    IF b.cls = ZX48 THEN ScreenWhile(AddPlain(b, n)) ELSE AddPlain(b, n)

\* the second phase of in_port / out_port: `if port & 0x0001 != 0: ... else: ...`
ZXPortPhase2(b, port) ==
    IF port % 2 /= 0
    THEN IF IsContended(port) THEN ZXBusCycles(b, 3) ELSE AddPlain(b, 3)
    ELSE AddDelayed(b, 3)

MutInPortSwapped(b, port) ==
    IF b.cls = ZX48
    THEN ScreenIf(
            (IF port % 2 = 0
             THEN IF IsContended(port) THEN ZXBusCycles(ZXAccess(b, port, 1), 3)
                                       ELSE AddDelayed(ZXAccess(b, port, 1), 3)
             ELSE AddPlain(ZXAccess(b, port, 1), 3)))
    ELSE AddPlain(b, 4)

in_port(b, port) ==
    IF b.cls = ZX48
    THEN ScreenIf(ZXPortPhase2(ZXAccess(b, port, 1), port))
    ELSE AddPlain(b, 4)

\* out_port has no screen-byte `if` after its first phase
out_port(b, port) ==
    IF b.cls = ZX48
    THEN ScreenIf(ZXPortPhase2(
            (IF IsContended(port) THEN AddDelayed(b, 1) ELSE AddPlain(b, 1)), port))
    ELSE AddPlain(b, 4)

\* mutant: the counter is compared as it is, also behind the end of the frame
MutIsActiveIntNoWrap(b) ==
    IF b.cls = ZX48
    THEN 0 < b.tstates /\ b.tstates < INTERRUPT_LENGTH
    ELSE FALSE

is_active_INT(b) ==
    IF b.cls = ZX48
    THEN LET current == IF b.tstates >= TSTATES_PER_INTERRUPT
                        THEN b.tstates - TSTATES_PER_INTERRUPT
                        ELSE b.tstates
         IN  0 < current /\ current < INTERRUPT_LENGTH
    ELSE FALSE

\* ClockAndBusAccess.reset(): the counter alone is cleared
BusReset(b) == [b EXCEPT !.tstates = 0]

\* a mutant of end_frame: the counter is cleared instead of lowered
MutEndFrameClears(b, frame_tstates) ==
    [b EXCEPT !.tstates = 0, !.frames = @ + 1]

\* a mutant of end_frame: the frame is counted, the counter is left alone
MutEndFrameKeepsCounter(b, frame_tstates) ==
    [b EXCEPT !.frames = @ + 1]

\* ClockAndBusAccess.end_frame(frame_tstates); neither bus class overrides it
end_frame(b, frame_tstates) ==
    [b EXCEPT !.tstates = @ - frame_tstates, !.frames = @ + 1]

\* the object after __init__ (and after reset())
NewBus(cls) ==
    [cls |-> cls, tstates |-> 0, frames |-> 0, next_screen_byte_index |-> 0]

-----------------------------------------------------------------------------
(* The Z80.  A machine state m is [cpu, bus, mem, name]: the three objects  *)
(* an instruction works on, and the name of the handler that ran last.     *)

SIGN_MASK == 128
ZERO_MASK == 64
HALFCARRY_MASK == 16
OVERFLOW_MASK == 4
ADDSUB_MASK == 2

\* idx & FLAG_53_MASK
Bits53(idx) == 32 * ((idx \div 32) % 2) + 8 * ((idx \div 8) % 2)

sz53n_addTable(idx) ==
    (IF idx > 127 THEN SIGN_MASK ELSE 0) + Bits53(idx) + (IF idx = 0 THEN ZERO_MASK ELSE 0)

\* the Z80 object after __init__ followed by reset()
ResetCpu ==
    [regA |-> 255, regB |-> 255, regC |-> 255, regD |-> 255, regE |-> 255,
     regH |-> 255, regL |-> 255, sz5h3pnFlags |-> 254, carryFlag |-> TRUE,
     regAx |-> 255, regFx |-> 255,
     flagQ |-> FALSE, lastFlagQ |-> FALSE,
     regPC |-> 0, regSP |-> 65535, regIX |-> 65535, regIY |-> 65535,
     regI |-> 0, regR |-> 0, regRbit7 |-> FALSE,
     ffIFF1 |-> FALSE, ffIFF2 |-> FALSE, pendingEI |-> FALSE,
     activeNMI |-> FALSE, activeINT |-> FALSE, modeINT |-> IM0,
     halted |-> FALSE, memptr |-> 65535, prefixOpcode |-> 0]

Named(m, name) == [m EXCEPT !.name = name]

\* bus_access.peekb(address): the byte read
ReadByte(m, address) == MemPeekb(m.mem, address)

\* bus_access.peekw(address): the word read
ReadWord(m, address) ==
    MemPeekb(m.mem, (address + 1) % 65536) * 256 + MemPeekb(m.mem, address)

\* bus_access.pokeb(address, value): the timed access, then memory.pokeb(address, value & 0xFF)
BusPokeb(m, address, value) ==
    [m EXCEPT !.bus = pokeb(@, address),
              !.mem = MemPokeb(@, address, value % 256)]

\* a mutant of pokew: the high byte is stored first
MutPokewBigEndian(b, m, address, value) ==
    MemPokeb(MemPokeb(m, address, value \div 256),
             IF b.cls = ZX48 THEN (address + 1) % 65536 ELSE address + 1,
             value % 256)

\* memory after pokew(address, value): the contended bus wraps the second
\* address, the base class passes address + 1 on as it is
PokewMem(b, m, address, value) ==
    MemPokeb(MemPokeb(m, address, value % 256),
             IF b.cls = ZX48 THEN (address + 1) % 65536 ELSE address + 1,
             value \div 256)

push(m, word) ==
    LET sp1 == (m.cpu.regSP - 1) % 65536
        m1  == BusPokeb([m EXCEPT !.cpu.regSP = sp1], sp1, word \div 256)
        sp2 == (sp1 - 1) % 65536
    IN  BusPokeb([m1 EXCEPT !.cpu.regSP = sp2], sp2, word)

\* pop(): the machine after it; the word popped is ReadWord(m, m.cpu.regSP)
pop(m) ==
    [m EXCEPT !.bus = peekw(@, m.cpu.regSP),
              !.cpu.regSP = (@ + 2) % 65536]

\* a mutant of inc8: the flags are computed and flagQ is left alone
MutInc8NoQ(m, oper8) ==
    LET r == (oper8 + 1) % 256
    IN  [m EXCEPT !.cpu.sz5h3pnFlags =
                      sz53n_addTable(r)
                      + (IF r % 16 = 0 THEN HALFCARRY_MASK ELSE 0)
                      + (IF r = 128 THEN OVERFLOW_MASK ELSE 0)]

inc8(m, oper8) ==
    LET r == (oper8 + 1) % 256
    IN  [m EXCEPT !.cpu.sz5h3pnFlags =
                      sz53n_addTable(r)
                      + (IF r % 16 = 0 THEN HALFCARRY_MASK ELSE 0)
                      + (IF r = 128 THEN OVERFLOW_MASK ELSE 0),
                  !.cpu.flagQ = TRUE]

nop(m) == m

ldan(m) ==
    [m EXCEPT !.bus = peekb(@, m.cpu.regPC),
              !.cpu.regA = ReadByte(m, m.cpu.regPC),
              !.cpu.regPC = (@ + 1) % 65536]

inca(m) == [inc8(m, m.cpu.regA) EXCEPT !.cpu.regA = (@ + 1) % 256]

incb(m) == [inc8(m, m.cpu.regB) EXCEPT !.cpu.regB = (@ + 1) % 256]

sz53n_subTable(idx) == sz53n_addTable(idx) + ADDSUB_MASK

\* a mutant of dec8: the flags are taken from the table of additions
MutDec8AddTable(m, oper8) ==
    LET r == (oper8 - 1) % 256
    IN  [m EXCEPT !.cpu.sz5h3pnFlags =
                      sz53n_addTable(r)
                      + (IF r % 16 = 15 THEN HALFCARRY_MASK ELSE 0)
                      + (IF r = 127 THEN OVERFLOW_MASK ELSE 0),
                  !.cpu.flagQ = TRUE]

\* dec8(oper8): the flags; the callers store (oper8 - 1) & 0xff
dec8(m, oper8) ==
    LET r == (oper8 - 1) % 256
    IN  [m EXCEPT !.cpu.sz5h3pnFlags =
                      sz53n_subTable(r)
                      + (IF r % 16 = 15 THEN HALFCARRY_MASK ELSE 0)
                      + (IF r = 127 THEN OVERFLOW_MASK ELSE 0),
                  !.cpu.flagQ = TRUE]

deca(m) == [dec8(m, m.cpu.regA) EXCEPT !.cpu.regA = (@ - 1) % 256]

decb(m) == [dec8(m, m.cpu.regB) EXCEPT !.cpu.regB = (@ - 1) % 256]

MutHaltRewind(m) == [m EXCEPT !.cpu.halted = TRUE, !.cpu.regPC = (@ - 1) % 65536]

halt(m) == [m EXCEPT !.cpu.halted = TRUE]

ret(m) ==
    [pop(m) EXCEPT !.cpu.regPC = ReadWord(m, m.cpu.regSP),
                   !.cpu.memptr = ReadWord(m, m.cpu.regSP)]

di(m) == [m EXCEPT !.cpu.ffIFF1 = FALSE, !.cpu.ffIFF2 = FALSE]

MutEiNoDelay(m) == [m EXCEPT !.cpu.ffIFF1 = TRUE, !.cpu.ffIFF2 = TRUE]

ei(m) == [m EXCEPT !.cpu.ffIFF1 = TRUE, !.cpu.ffIFF2 = TRUE, !.cpu.pendingEI = TRUE]

\* mutant: RETN returns and leaves IFF1 as the NMI set it
MutRetnKeepsIFF1(m) == ret(m)

retn(m) == [ret(m) EXCEPT !.cpu.ffIFF1 = m.cpu.ffIFF2]

reti(m) == [ret(m) EXCEPT !.cpu.ffIFF1 = m.cpu.ffIFF2]

im0(m) == [m EXCEPT !.cpu.modeINT = IM0]
im1(m) == [m EXCEPT !.cpu.modeINT = IM1]
im2(m) == [m EXCEPT !.cpu.modeINT = IM2]

opcodedd(m) == [m EXCEPT !.cpu.prefixOpcode = 221]
opcodeed(m) == [m EXCEPT !.cpu.prefixOpcode = 237]
opcodefd(m) == [m EXCEPT !.cpu.prefixOpcode = 253]

\* flag masks of z80.py built from the single-bit masks
CARRY_MASK == 1
PARITY_MASK == 4
BIT3_MASK == 8
BIT5_MASK == 32
FLAG_53_MASK == BIT5_MASK + BIT3_MASK
FLAG_SZ_MASK == SIGN_MASK + ZERO_MASK
FLAG_SZP_MASK == FLAG_SZ_MASK + PARITY_MASK
FLAG_SZHP_MASK == FLAG_SZP_MASK + HALFCARRY_MASK

\* x & y and x | y on the low eight bits
BitAnd(x, y) ==
    LET b(k) == ((x \div (2 ^ k)) % 2) * ((y \div (2 ^ k)) % 2) * (2 ^ k)
    IN  b(0) + b(1) + b(2) + b(3) + b(4) + b(5) + b(6) + b(7)

BitOr(x, y) == (x % 256) + (y % 256) - BitAnd(x, y)

get_reg_BC(c) == c.regB * 256 + c.regC
get_reg_DE(c) == c.regD * 256 + c.regE
get_reg_HL(c) == c.regH * 256 + c.regL

inc_reg_HL(c) ==
    LET w == (get_reg_HL(c) + 1) % 65536
    IN  [c EXCEPT !.regH = w \div 256, !.regL = w % 256]

inc_reg_DE(c) ==
    LET w == (get_reg_DE(c) + 1) % 65536
    IN  [c EXCEPT !.regD = w \div 256, !.regE = w % 256]

dec_reg_BC(c) ==
    LET w == (get_reg_BC(c) - 1) % 65536
    IN  [c EXCEPT !.regB = w \div 256, !.regC = w % 256]

set_zero_flag(flags, state) ==
    IF state THEN BitOr(flags, ZERO_MASK) ELSE BitAnd(flags, 255 - ZERO_MASK)

is_zero_flag(flags) == BitAnd(flags, ZERO_MASK) /= 0

\* Z80.set_flags(regF)
set_flags(c, regF) ==
    [c EXCEPT !.sz5h3pnFlags = BitAnd(regF, 254),
              !.carryFlag = (BitAnd(regF, CARRY_MASK) /= 0)]

\* Z80.get_flags()
get_flags(c) ==
    IF c.carryFlag THEN BitOr(c.sz5h3pnFlags, CARRY_MASK) ELSE c.sz5h3pnFlags

BitXor(x, y) == BitOr(x, y) - BitAnd(x, y)

\* a mutant of scf: regQ is taken to be 0 whatever lastFlagQ says
MutScfNoQ(m) ==
    [m EXCEPT !.cpu.carryFlag = TRUE,
              !.cpu.sz5h3pnFlags =
                  BitOr(BitAnd(@, FLAG_SZP_MASK),
                        BitAnd(BitOr(@, m.cpu.regA), FLAG_53_MASK)),
              !.cpu.flagQ = TRUE]

\* SCF
scf(m) ==
    LET regQ == IF m.cpu.lastFlagQ THEN m.cpu.sz5h3pnFlags ELSE 0
    IN  [m EXCEPT !.cpu.carryFlag = TRUE,
                  !.cpu.sz5h3pnFlags =
                      BitOr(BitAnd(@, FLAG_SZP_MASK),
                            BitAnd(BitOr(BitXor(regQ, @), m.cpu.regA), FLAG_53_MASK)),
                  !.cpu.flagQ = TRUE]

\* CCF
ccf(m) ==
    LET regQ == IF m.cpu.lastFlagQ THEN m.cpu.sz5h3pnFlags ELSE 0
        f == BitOr(BitAnd(m.cpu.sz5h3pnFlags, FLAG_SZP_MASK),
                   BitAnd(BitOr(BitXor(regQ, m.cpu.sz5h3pnFlags), m.cpu.regA),
                          FLAG_53_MASK))
    IN  [m EXCEPT !.cpu.sz5h3pnFlags =
                      IF m.cpu.carryFlag THEN BitOr(f, HALFCARRY_MASK) ELSE f,
                  !.cpu.carryFlag = ~m.cpu.carryFlag,
                  !.cpu.flagQ = TRUE]

set_reg_AF(c, word) ==
    [c EXCEPT !.regA = (word \div 256) % 256,
              !.sz5h3pnFlags = BitAnd(word, 254),
              !.carryFlag = (BitAnd(word, CARRY_MASK) /= 0)]

\* POP AF
popaf(m) == [pop(m) EXCEPT !.cpu = set_reg_AF(@, ReadWord(m, m.cpu.regSP))]

\* EX AF,AF'
ex_af_af(m) ==
    [m EXCEPT !.cpu = [set_flags(m.cpu, m.cpu.regFx) EXCEPT
                          !.regA = m.cpu.regAx,
                          !.regAx = m.cpu.regA,
                          !.regFx = get_flags(m.cpu)]]

\* a mutant of reset: the HALT latch survives
MutResetKeepsHalt(c) ==
    [ResetCpu EXCEPT !.flagQ = c.flagQ, !.halted = c.halted]

\* Z80.reset(): pinReset is False from __init__ on and nothing sets it, so the
\* else branch always runs; flagQ is the one field reset() does not assign
reset(c) ==
    [set_flags(c, 255) EXCEPT
              !.regA = 255, !.regAx = 255,
              !.regFx = 255,
              !.regB = 255, !.regC = 255, !.regD = 255, !.regE = 255,
              !.regH = 255, !.regL = 255,
              !.regIX = 65535, !.regIY = 65535,
              !.regSP = 65535,
              !.memptr = 65535,
              !.regPC = 0,
              !.regI = 0, !.regR = 0,
              !.regRbit7 = FALSE,
              !.ffIFF1 = FALSE,
              !.ffIFF2 = FALSE,
              !.pendingEI = FALSE,
              !.activeNMI = FALSE,
              !.activeINT = FALSE,
              !.halted = FALSE,
              !.modeINT = IM0,
              !.lastFlagQ = FALSE,
              !.prefixOpcode = 0]

MutLdaOperandUntimed(m) ==
    LET nn == ReadWord(m, m.cpu.regPC)
    IN  [m EXCEPT !.bus = peekb(@, nn),
                  !.cpu.regA = ReadByte(m, nn),
                  !.cpu.memptr = nn + 1,
                  !.cpu.regPC = (@ + 2) % 65536]

\* LD A,(nn)
ldafromnn(m) ==
    LET nn == ReadWord(m, m.cpu.regPC)
    IN  [m EXCEPT !.bus = peekb(peekw(@, m.cpu.regPC), nn),
                  !.cpu.regA = ReadByte(m, nn),
                  !.cpu.memptr = nn + 1,
                  !.cpu.regPC = (@ + 2) % 65536]

jpnn(m) ==
    [m EXCEPT !.bus = peekw(@, m.cpu.regPC),
              !.cpu.memptr = ReadWord(m, m.cpu.regPC),
              !.cpu.regPC = ReadWord(m, m.cpu.regPC)]

\* bit(mask, reg): the flags are assigned in four statements, in this order;
\* the second statement replaces what set_zero_flag stored
bit(m, mask, reg) ==
    LET f1 == set_zero_flag(m.cpu.sz5h3pnFlags, BitAnd(mask, reg) = 0)
        f2 == BitOr(BitAnd(sz53n_addTable(reg), 255 - FLAG_SZP_MASK), HALFCARRY_MASK)
        f3 == IF is_zero_flag(f2) THEN BitOr(f2, PARITY_MASK + ZERO_MASK) ELSE f2
        f4 == IF mask = SIGN_MASK /\ ~is_zero_flag(f3) THEN BitOr(f3, SIGN_MASK) ELSE f3
    IN  [m EXCEPT !.cpu.sz5h3pnFlags = f4, !.cpu.flagQ = TRUE]

\* An entry of _ixiydict takes the index register's value and returns the
\* value to store in it: the handlers give [m |-> machine, value |-> value].
Returning(m, value) == [m |-> m, value |-> value]

\* the parity of idx, as the table loop computes it
EvenBits(idx) ==
    LET b(k) == (idx \div (2 ^ k)) % 2
    IN  (b(0) + b(1) + b(2) + b(3) + b(4) + b(5) + b(6) + b(7)) % 2 = 0

sz53pn_addTable(idx) ==
    sz53n_addTable(idx) + (IF EvenBits(idx) THEN PARITY_MASK ELSE 0)

\* rlc(oper8), rl(oper8), rr(oper8): the machine, and the byte returned
rlc(m, oper8) ==
    LET res == ((oper8 * 2) % 256) + (IF oper8 > 127 THEN CARRY_MASK ELSE 0)
    IN  Returning([m EXCEPT !.cpu.carryFlag = (oper8 > 127),
                            !.cpu.sz5h3pnFlags = sz53pn_addTable(res),
                            !.cpu.flagQ = TRUE], res)

rl(m, oper8) ==
    LET res == ((oper8 * 2) % 256) + (IF m.cpu.carryFlag THEN CARRY_MASK ELSE 0)
    IN  Returning([m EXCEPT !.cpu.carryFlag = (oper8 > 127),
                            !.cpu.sz5h3pnFlags = sz53pn_addTable(res),
                            !.cpu.flagQ = TRUE], res)

rr(m, oper8) ==
    LET res == (oper8 \div 2) + (IF m.cpu.carryFlag THEN SIGN_MASK ELSE 0)
    IN  Returning([m EXCEPT !.cpu.carryFlag = (oper8 % 2 = 1),
                            !.cpu.sz5h3pnFlags = sz53pn_addTable(res),
                            !.cpu.flagQ = TRUE], res)

\* the machine after bus_access.peekb(address)
Peeked(m, address) == [m EXCEPT !.bus = peekb(@, address)]

\* address_on_bus(address, 1); pokeb(address, work8), with work8 as returned
Stored(r, address) ==
    Returning(BusPokeb([r.m EXCEPT !.bus = address_on_bus(@, address, 1)],
                       address, r.value),
              r.value)

\* bit k of x
Bit(x, k) == (x \div (2 ^ k)) % 2

\* `((self.regA ^ ~oper8) & (self.regA ^ res)) > 0x7f`, the overflow test of
\* add and adc: A and the operand agree in bit 7 and the result differs
AddOverflow(a, oper8, res) == Bit(a, 7) = Bit(oper8, 7) /\ Bit(a, 7) /= Bit(res, 7)

\* `((self.regA ^ oper8) & (self.regA ^ res)) > 0x7f`, that of sub, sbc and cp
SubOverflow(a, oper8, res) == Bit(a, 7) /= Bit(oper8, 7) /\ Bit(a, 7) /= Bit(res, 7)

\* the 8-bit arithmetic and logic of the accumulator.  oper8 is what the
\* caller passes; the sum and the difference are taken before the mask.
add(m, oper8) ==
    LET sum == m.cpu.regA + oper8
        res == sum % 256
    IN  [m EXCEPT !.cpu.carryFlag = (sum > 255),
                  !.cpu.sz5h3pnFlags =
                      sz53n_addTable(res)
                      + (IF res % 16 < m.cpu.regA % 16 THEN HALFCARRY_MASK ELSE 0)
                      + (IF AddOverflow(m.cpu.regA, oper8, res) THEN OVERFLOW_MASK ELSE 0),
                  !.cpu.regA = res,
                  !.cpu.flagQ = TRUE]

adc(m, oper8) ==
    LET sum == m.cpu.regA + oper8 + (IF m.cpu.carryFlag THEN 1 ELSE 0)
        res == sum % 256
    IN  [m EXCEPT !.cpu.carryFlag = (sum > 255),
                  !.cpu.sz5h3pnFlags =
                      sz53n_addTable(res)
                      + (IF (Bit(m.cpu.regA, 4) + Bit(oper8, 4) + Bit(res, 4)) % 2 /= 0
                         THEN HALFCARRY_MASK ELSE 0)
                      + (IF AddOverflow(m.cpu.regA, oper8, res) THEN OVERFLOW_MASK ELSE 0),
                  !.cpu.regA = res,
                  !.cpu.flagQ = TRUE]

sub(m, oper8) ==
    LET diff == m.cpu.regA - oper8
        res == diff % 256
    IN  [m EXCEPT !.cpu.carryFlag = (diff < 0),
                  !.cpu.sz5h3pnFlags =
                      sz53n_subTable(res)
                      + (IF res % 16 > m.cpu.regA % 16 THEN HALFCARRY_MASK ELSE 0)
                      + (IF SubOverflow(m.cpu.regA, oper8, res) THEN OVERFLOW_MASK ELSE 0),
                  !.cpu.regA = res,
                  !.cpu.flagQ = TRUE]

sbc(m, oper8) ==
    LET diff == m.cpu.regA - oper8 - (IF m.cpu.carryFlag THEN 1 ELSE 0)
        res == diff % 256
    IN  [m EXCEPT !.cpu.carryFlag = (diff < 0),
                  !.cpu.sz5h3pnFlags =
                      sz53n_subTable(res)
                      + (IF (Bit(m.cpu.regA, 4) + Bit(oper8, 4) + Bit(res, 4)) % 2 /= 0
                         THEN HALFCARRY_MASK ELSE 0)
                      + (IF SubOverflow(m.cpu.regA, oper8, res) THEN OVERFLOW_MASK ELSE 0),
                  !.cpu.regA = res,
                  !.cpu.flagQ = TRUE]

_and(m, oper8) ==
    [m EXCEPT !.cpu.regA = BitAnd(@, oper8),
              !.cpu.carryFlag = FALSE,
              !.cpu.sz5h3pnFlags = sz53pn_addTable(BitAnd(m.cpu.regA, oper8)) + HALFCARRY_MASK,
              !.cpu.flagQ = TRUE]

_xor(m, oper8) ==
    [m EXCEPT !.cpu.regA = BitXor(@, oper8),
              !.cpu.carryFlag = FALSE,
              !.cpu.sz5h3pnFlags = sz53pn_addTable(BitXor(m.cpu.regA, oper8)),
              !.cpu.flagQ = TRUE]

_or(m, oper8) ==
    [m EXCEPT !.cpu.regA = BitOr(@, oper8),
              !.cpu.carryFlag = FALSE,
              !.cpu.sz5h3pnFlags = sz53pn_addTable(BitOr(m.cpu.regA, oper8)),
              !.cpu.flagQ = TRUE]

\* cp: bits 3 and 5 come from the operand, S, Z and N from the difference
cp(m, oper8) ==
    LET diff == m.cpu.regA - (oper8 % 256)
        res == diff % 256
    IN  [m EXCEPT !.cpu.carryFlag = (diff < 0),
                  !.cpu.sz5h3pnFlags =
                      Bits53(oper8)
                      + (IF res > 127 THEN SIGN_MASK ELSE 0)
                      + (IF res = 0 THEN ZERO_MASK ELSE 0)
                      + ADDSUB_MASK
                      + (IF res % 16 > m.cpu.regA % 16 THEN HALFCARRY_MASK ELSE 0)
                      + (IF SubOverflow(m.cpu.regA, oper8, res) THEN OVERFLOW_MASK ELSE 0),
                  !.cpu.flagQ = TRUE]

\* the three statements that read, rotate and write back the byte at address
RlcAt(m, address) == Stored(rlc(Peeked(m, address), ReadByte(m, address)), address)

RlAt(m, address) == Stored(rl(Peeked(m, address), ReadByte(m, address)), address)

RrAt(m, address) == Stored(rr(Peeked(m, address), ReadByte(m, address)), address)

\* work8 = peekb(address) & mask, and work8 = peekb(address) | mask, written back
AndAt(m, address, mask) ==
    Stored(Returning(Peeked(m, address), BitAnd(ReadByte(m, address), mask)), address)

OrAt(m, address, mask) ==
    Stored(Returning(Peeked(m, address), BitOr(ReadByte(m, address), mask)), address)

\* RLC (HL), RL (HL), RR (HL), RES 0,(HL), SET 7,(HL)
rlcfromhl(m) == RlcAt(m, get_reg_HL(m.cpu)).m

rlfromhl(m) == RlAt(m, get_reg_HL(m.cpu)).m

rrfromhl(m) == RrAt(m, get_reg_HL(m.cpu)).m

res0fromhl(m) == AndAt(m, get_reg_HL(m.cpu), 254).m

set7fromhl(m) == OrAt(m, get_reg_HL(m.cpu), 128).m

\* bit0fromhl .. bit7fromhl: the eight handlers differ in the mask only
bitfromhl(m, mask) ==
    LET work16 == get_reg_HL(m.cpu)
        m1 == bit([m EXCEPT !.bus = peekb(@, work16)], mask, ReadByte(m, work16))
    IN  [m1 EXCEPT !.cpu.sz5h3pnFlags =
                       BitOr(BitAnd(@, FLAG_SZHP_MASK),
                             BitAnd(m.cpu.memptr \div 256, FLAG_53_MASK)),
                   !.bus = address_on_bus(@, work16, 1)]

\* the keys of _cbdict the model executes: BIT n,(HL)
CbOpcodes == {70 + 8 * n : n \in 0 .. 7}

CbDict(opcode, m) ==
    CASE opcode \in CbOpcodes -> Named(bitfromhl(m, 2 ^ ((opcode - 70) \div 8)), "bitfromhl")
      [] opcode = 6   -> Named(rlcfromhl(m), "rlcfromhl")
      [] opcode = 22  -> Named(rlfromhl(m), "rlfromhl")
      [] opcode = 30  -> Named(rrfromhl(m), "rrfromhl")
      [] opcode = 134 -> Named(res0fromhl(m), "res0fromhl")
      [] opcode = 254 -> Named(set7fromhl(m), "set7fromhl")
      [] OTHER        -> Named(m, "unmodelled")

\* Z80.get_pair_IR()
get_pair_IR(c) ==
    IF c.regRbit7
    THEN c.regI * 256 + BitOr(c.regR % 128, SIGN_MASK)
    ELSE c.regI * 256 + (c.regR % 128)

set_reg_HL(c, word) ==
    [c EXCEPT !.regH = (word \div 256) % 256, !.regL = word % 256]

\* LD (BC),A.  `regA << 8 + (regC & 0xff)` shifts regA by 8 + regC places: in
\* Python + binds tighter than <<.  The integers of the model are 32 bits
\* wide, so the programs keep regC small.
ldtobca(m) ==
    [BusPokeb(m, get_reg_BC(m.cpu), m.cpu.regA) EXCEPT
        !.cpu.memptr = m.cpu.regA * 2 ^ (8 + (m.cpu.regC % 256))]

\* add16(reg16, oper16): the machine, and the sum it returns
add16(m, reg16, oper16) ==
    LET sum == oper16 + reg16
        res == sum % 65536
        f1 == BitOr(BitAnd(m.cpu.sz5h3pnFlags, FLAG_SZP_MASK),
                    BitAnd((sum \div 256) % 256, FLAG_53_MASK))
        f2 == IF (res % 4096) < (reg16 % 4096) THEN BitOr(f1, HALFCARRY_MASK) ELSE f1
    IN  [m |-> [m EXCEPT !.cpu.carryFlag = (sum > 65535),
                         !.cpu.sz5h3pnFlags = f2,
                         !.cpu.memptr = reg16 + 1,
                         !.cpu.flagQ = TRUE],
         value |-> res]

\* ADD HL,BC
addhlbc(m) ==
    LET m1 == [m EXCEPT !.bus = address_on_bus(@, get_pair_IR(m.cpu), 7)]
        r == add16(m1, get_reg_HL(m1.cpu), get_reg_BC(m1.cpu))
    IN  [r.m EXCEPT !.cpu = set_reg_HL(@, r.value)]

\* ADD HL,DE: no address_on_bus call
addhlde(m) ==
    LET r == add16(m, get_reg_HL(m.cpu), get_reg_DE(m.cpu))
    IN  [r.m EXCEPT !.cpu = set_reg_HL(@, r.value)]

\* ADD HL,HL
addhlhl(m) ==
    LET m1 == [m EXCEPT !.bus = address_on_bus(@, get_pair_IR(m.cpu), 7)]
        r == add16(m1, get_reg_HL(m1.cpu), get_reg_HL(m1.cpu))
    IN  [r.m EXCEPT !.cpu = set_reg_HL(@, r.value)]

\* ADD HL,SP
addhlsp(m) ==
    LET m1 == [m EXCEPT !.bus = address_on_bus(@, get_pair_IR(m.cpu), 7)]
        r == add16(m1, get_reg_HL(m1.cpu), m1.cpu.regSP)
    IN  [r.m EXCEPT !.cpu = set_reg_HL(@, r.value)]

\* ADD IX|IY,rr: addidbc, addidde, addidid and addidsp differ in the second
\* operand oper16 only (BC, DE, the index register itself, SP)
addid(m, regIXY, oper16) ==
    add16([m EXCEPT !.bus = address_on_bus(@, get_pair_IR(m.cpu), 7)], regIXY, oper16)

\* JR NZ,e
jrnz(m) ==
    LET offset == MemPeeksb(m.mem, m.cpu.regPC)
        m1 == [m EXCEPT !.bus = peeksb(@, m.cpu.regPC)]
    IN  IF BitAnd(m.cpu.sz5h3pnFlags, ZERO_MASK) = 0
        THEN [m1 EXCEPT !.bus = address_on_bus(@, m.cpu.regPC, 5),
                        !.cpu.memptr = m.cpu.regPC + offset + 1,
                        !.cpu.regPC = (m.cpu.regPC + offset + 1) % 65536]
        ELSE [m1 EXCEPT !.cpu.regPC = (@ + 1) % 65536]

\* the start of ix(), iy(), ed() and cb(): fetch the next opcode byte
FetchNext(m) ==
    [m EXCEPT !.bus = fetch_opcode(@, m.cpu.regPC),
              !.cpu.regPC = (@ + 1) % 65536,
              !.cpu.regR = @ + 1]

cb(m) == CbDict(ReadByte(m, m.cpu.regPC), FetchNext(m))

ldi(m) ==
    LET hl == get_reg_HL(m.cpu)
        regDE == get_reg_DE(m.cpu)
        work8 == ReadByte(m, hl)
        m1 == BusPokeb([m EXCEPT !.bus = peekb(@, hl)], regDE, work8)
        c1 == dec_reg_BC(inc_reg_DE(inc_reg_HL(m1.cpu)))
        sum == work8 + m.cpu.regA
        f1 == BitOr(BitAnd(m.cpu.sz5h3pnFlags, FLAG_SZ_MASK), BitAnd(sum, BIT3_MASK))
        f2 == IF BitAnd(sum, ADDSUB_MASK) /= 0 THEN BitOr(f1, BIT5_MASK) ELSE f1
        f3 == IF c1.regC /= 0 \/ c1.regB /= 0 THEN BitOr(f2, PARITY_MASK) ELSE f2
    IN  [m1 EXCEPT !.bus = address_on_bus(@, regDE, 2),
                   !.cpu = [c1 EXCEPT !.sz5h3pnFlags = f3, !.flagQ = TRUE]]

\* a mutant of ldir: the instruction is never repeated
MutLdirNoRepeat(m) == ldi(m)

ldir(m) ==
    LET m1 == ldi(m)
        newPC == (m1.cpu.regPC - 2) % 65536
    IN  IF BitAnd(m1.cpu.sz5h3pnFlags, PARITY_MASK) = PARITY_MASK
        THEN [m1 EXCEPT !.cpu.regPC = newPC,
                        !.cpu.memptr = newPC + 1,
                        !.bus = address_on_bus(@, (get_reg_DE(m1.cpu) - 1) % 65536, 5),
                        !.cpu.sz5h3pnFlags =
                            BitOr(BitAnd(@, 255 - FLAG_53_MASK),
                                  BitAnd(newPC \div 256, FLAG_53_MASK))]
        ELSE m1

\* the operation that bits 3-5 of an ALU opcode select: add, adc, sub, sbc,
\* _and, _xor, _or, cp
Alu(k, m, oper8) ==
    CASE k = 0 -> add(m, oper8)
      [] k = 1 -> adc(m, oper8)
      [] k = 2 -> sub(m, oper8)
      [] k = 3 -> sbc(m, oper8)
      [] k = 4 -> _and(m, oper8)
      [] k = 5 -> _xor(m, oper8)
      [] k = 6 -> _or(m, oper8)
      [] k = 7 -> cp(m, oper8)

\* addab, adcab, subab, sbcab, andab, xorab, orab, cpab: `self.op(self.regB)`
AluAB(k, m) == Alu(k, m, m.cpu.regB)

\* addan, suban, sbcan, andan, xoran, oran, cpan:
\* `self.op(self.bus_access.peekb(self.regPC))`, then regPC + 1
AluAN(k, m) ==
    [Alu(k, Peeked(m, m.cpu.regPC), ReadByte(m, m.cpu.regPC)) EXCEPT
        !.cpu.regPC = (m.cpu.regPC + 1) % 65536]

\* ADC A,n: the operand is read with peekw, a 16-bit read of two bus cycles,
\* and the word read is handed to adc
adcan(m) ==
    [adc([m EXCEPT !.bus = peekw(@, m.cpu.regPC)], ReadWord(m, m.cpu.regPC)) EXCEPT
        !.cpu.regPC = (m.cpu.regPC + 1) % 65536]

\* rst0, rst8, rst16, rst32, rst40, rst48, rst56: the handlers differ in the
\* target only.  rst24 is none of them: its body is that of sbcan.
rst(m, n) ==
    LET m1 == [m EXCEPT !.bus = address_on_bus(@, get_pair_IR(m.cpu), 1)]
    IN  [push(m1, m1.cpu.regPC) EXCEPT !.cpu.regPC = n, !.cpu.memptr = n]

\* the opcodes of main_cmds the model executes, other than the prefixes
PlainOpcodes ==
    {0, 2, 4, 5, 8, 9, 25, 41, 57, 32, 55, 61, 63, 241, 58, 60, 62, 118, 195, 201, 203, 243, 251}
    \cup {128 + 8 * k : k \in 0 .. 7} \cup {198 + 8 * k : k \in 0 .. 7}
    \cup {199 + 8 * k : k \in 0 .. 7}

\* main_cmds[opcode]() for an opcode that is not DD, ED or FD
MainPlain(opcode, m) ==
    CASE opcode = 0   -> Named(nop(m), "nop")
      [] opcode = 2   -> Named(ldtobca(m), "ldtobca")
      [] opcode = 4   -> Named(incb(m), "incb")
      [] opcode = 5   -> Named(decb(m), "decb")
      [] opcode = 61  -> Named(deca(m), "deca")
      [] opcode = 8   -> Named(ex_af_af(m), "ex_af_af")
      [] opcode = 9   -> Named(addhlbc(m), "addhlbc")
      [] opcode = 25  -> Named(addhlde(m), "addhlde")
      [] opcode = 41  -> Named(addhlhl(m), "addhlhl")
      [] opcode = 57  -> Named(addhlsp(m), "addhlsp")
      [] opcode = 32  -> Named(jrnz(m), "jrnz")
      [] opcode = 55  -> Named(scf(m), "scf")
      [] opcode = 63  -> Named(ccf(m), "ccf")
      [] opcode = 241 -> Named(popaf(m), "popaf")
      [] opcode = 58  -> Named(ldafromnn(m), "ldafromnn")
      [] opcode = 60  -> Named(inca(m), "inca")
      [] opcode = 62  -> Named(ldan(m), "ldan")
      [] opcode = 118 -> Named(halt(m), "halt")
      [] opcode = 195 -> Named(jpnn(m), "jpnn")
      [] opcode = 201 -> Named(ret(m), "ret")
      [] opcode = 203 -> cb(m)
      [] opcode = 243 -> Named(di(m), "di")
      [] opcode = 251 -> Named(ei(m), "ei")
      [] opcode \in {128, 136, 144, 152, 160, 168, 176, 184} ->
            Named(AluAB((opcode - 128) \div 8, m),
                  <<"addab", "adcab", "subab", "sbcab",
                    "andab", "xorab", "orab", "cpab">>[((opcode - 128) \div 8) + 1])
      [] opcode \in {198, 214, 222, 230, 238, 246, 254} ->
            Named(AluAN((opcode - 198) \div 8, m),
                  <<"addan", "adcan", "suban", "sbcan",
                    "andan", "xoran", "oran", "cpan">>[((opcode - 198) \div 8) + 1])
      [] opcode = 206 -> Named(adcan(m), "adcan")
      [] opcode \in {199, 207, 215, 231, 239, 247, 255} ->
            Named(rst(m, opcode - 199),
                  <<"rst0", "rst8", "rst16", "rst24",
                    "rst32", "rst40", "rst48", "rst56">>[((opcode - 199) \div 8) + 1])
      [] opcode = 223 -> Named(AluAN(3, m), "rst24")
      [] OTHER        -> Named(m, "unmodelled")

\* the keys of _eddict
EdKeys ==
    ((64 .. 127) \ {119, 127}) \cup (160 .. 163) \cup (168 .. 171)
    \cup (176 .. 179) \cup (184 .. 187) \cup {221, 237, 253}

\* the keys of _eddict the model executes; every other key is absent from the
\* programs, every byte that is no key is a no-op
EdOpcodes == {69, 77, 70, 86, 94, 79, 95, 176, 221, 237, 253}

\* Z80.get_reg_R() and Z80.set_reg_R(value)
get_reg_R(c) ==
    IF c.regRbit7 THEN BitOr(c.regR % 128, SIGN_MASK) ELSE c.regR % 128

\* a mutant of set_reg_R: bit 7 of the value is dropped
MutSetRLow(c, value) == [c EXCEPT !.regR = value % 128]

set_reg_R(c, value) ==
    [c EXCEPT !.regR = value % 128, !.regRbit7 = (value > 127)]

\* LD R,A
ldra(m) ==
    [m EXCEPT !.bus = address_on_bus(@, get_pair_IR(m.cpu), 1),
              !.cpu = set_reg_R(@, m.cpu.regA)]

\* LD A,R
ldar(m) ==
    LET b == address_on_bus(m.bus, get_pair_IR(m.cpu), 1)
        f == sz53n_addTable(get_reg_R(m.cpu))
    IN  [m EXCEPT !.bus = b,
                  !.cpu.regA = get_reg_R(m.cpu),
                  !.cpu.sz5h3pnFlags =
                      IF m.cpu.ffIFF2 /\ ~is_active_INT(b) THEN BitOr(f, PARITY_MASK) ELSE f,
                  !.cpu.flagQ = TRUE]

EdDict(opcode, m) ==
    CASE opcode \in {69, 85, 101, 117}  -> Named(retn(m), "retn")
      [] opcode \in {77, 93, 109, 125}  -> Named(reti(m), "reti")
      [] opcode \in {70, 78, 102, 110}  -> Named(im0(m), "im0")
      [] opcode \in {86, 118}           -> Named(im1(m), "im1")
      [] opcode \in {94, 126}           -> Named(im2(m), "im2")
      [] opcode = 79                    -> Named(ldra(m), "ldra")
      [] opcode = 95                    -> Named(ldar(m), "ldar")
      [] opcode = 176                   -> Named(ldir(m), "ldir")
      [] opcode = 221                   -> Named(opcodedd(m), "opcodedd")
      [] opcode = 237                   -> Named(opcodeed(m), "opcodeed")
      [] opcode = 253                   -> Named(opcodefd(m), "opcodefd")
      [] OTHER                          ->
            Named(m, IF opcode \in EdKeys THEN "unmodelled" ELSE "ednone")

\* the keys of _ixiydict
IxIyKeys ==
    {9, 25, 41, 57, 33, 34, 42, 35, 36, 44, 52, 43, 37, 45, 53,
     68, 76, 84, 92, 124, 69, 77, 85, 93, 125,
     96, 97, 98, 99, 100, 101, 38, 103, 104, 105, 106, 107, 108, 109, 46, 111,
     70, 78, 86, 94, 102, 110, 126, 112, 113, 114, 115, 116, 117, 54, 119,
     132, 133, 134, 140, 141, 142, 148, 149, 150, 156, 157, 158,
     164, 165, 166, 172, 173, 174, 180, 181, 182, 188, 189, 190,
     229, 225, 233, 249, 227, 203, 221, 237, 253}

\* LD IX,nn / LD IY,nn
ldidnn(m, regIXY) ==
    Returning([m EXCEPT !.bus = peekw(@, m.cpu.regPC),
                        !.cpu.regPC = (@ + 2) % 65536],
              ReadWord(m, m.cpu.regPC))

\* LD (nn),IX / LD (nn),IY: the word handed to pokew is regPC, which is the
\* address of the operand nn; the register comes back as it was
ldtonnid(m, regIXY) ==
    LET nn == ReadWord(m, m.cpu.regPC)
    IN  Returning([m EXCEPT !.bus = pokew(peekw(@, m.cpu.regPC), nn),
                            !.mem = PokewMem(m.bus, @, nn, m.cpu.regPC),
                            !.cpu.memptr = nn + 1,
                            !.cpu.regPC = (@ + 2) % 65536],
                  regIXY)

\* LD IX,(nn) / LD IY,(nn)
ldidfromnn(m, regIXY) ==
    LET nn == ReadWord(m, m.cpu.regPC)
    IN  Returning([m EXCEPT !.bus = peekw(peekw(@, m.cpu.regPC), nn),
                            !.cpu.memptr = nn + 1,
                            !.cpu.regPC = (@ + 2) % 65536],
                  ReadWord(m, nn))

\* a mutant of incid: the register is left as it was
MutIncidKeeps(m, regIXY) ==
    Returning([m EXCEPT !.bus = address_on_bus(@, get_pair_IR(m.cpu), 2)], regIXY)

\* INC IX / INC IY
incid(m, regIXY) ==
    Returning([m EXCEPT !.bus = address_on_bus(@, get_pair_IR(m.cpu), 2)],
              (regIXY + 1) % 65536)

\* the last statement of a DDCB/FDCB handler, `self.regX = work8`: w is the
\* machine after the write with the byte written; the (IX|IY+d) handlers
\* named ...inhl have no such statement
Work8To(r, w) ==
    CASE r = "b" -> [w.m EXCEPT !.cpu.regB = w.value]
      [] r = "c" -> [w.m EXCEPT !.cpu.regC = w.value]
      [] r = "d" -> [w.m EXCEPT !.cpu.regD = w.value]
      [] r = "e" -> [w.m EXCEPT !.cpu.regE = w.value]
      [] r = "h" -> [w.m EXCEPT !.cpu.regH = w.value]
      [] r = "l" -> [w.m EXCEPT !.cpu.regL = w.value]
      [] r = "a" -> [w.m EXCEPT !.cpu.regA = w.value]

\* cbbit0 .. cbbit7: the eight handlers differ in the mask only
cbbit(m, address, mask) ==
    LET m1 == bit(Peeked(m, address), mask, ReadByte(m, address))
    IN  [m1 EXCEPT !.cpu.sz5h3pnFlags =
                       BitOr(BitAnd(@, FLAG_SZHP_MASK),
                             BitAnd(address \div 256, FLAG_53_MASK)),
                   !.bus = address_on_bus(@, address, 1)]

\* the keys of _idcbdict the model executes
IdcbOpcodes ==
    (0 .. 7) \cup (16 .. 31) \cup {70 + 8 * n : n \in 0 .. 7} \cup {128, 134, 254, 255}

\* _idcbdict[opcode](address) for the entries the model executes.  Every
\* rotate handler reads the byte, rotates it, writes it back and copies it
\* into its register; cbrlcl (0x05) has no `self.regL = work8`, and the
\* handlers cbrrb .. cbrra (0x18 .. 0x1F) call rl, not rr.
IdcbDict(opcode, m, address) ==
    CASE opcode = 0    -> Named(Work8To("b", RlcAt(m, address)), "cbrlcb")
      [] opcode = 1    -> Named(Work8To("c", RlcAt(m, address)), "cbrlcc")
      [] opcode = 2    -> Named(Work8To("d", RlcAt(m, address)), "cbrlcd")
      [] opcode = 3    -> Named(Work8To("e", RlcAt(m, address)), "cbrlce")
      [] opcode = 4    -> Named(Work8To("h", RlcAt(m, address)), "cbrlch")
      [] opcode = 5    -> Named(RlcAt(m, address).m, "cbrlcl")
      [] opcode = 6    -> Named(RlcAt(m, address).m, "cbrlcinhl")
      [] opcode = 7    -> Named(Work8To("a", RlcAt(m, address)), "cbrlca")
      [] opcode = 16   -> Named(Work8To("b", RlAt(m, address)), "cbrlb")
      [] opcode = 17   -> Named(Work8To("c", RlAt(m, address)), "cbrlc")
      [] opcode = 18   -> Named(Work8To("d", RlAt(m, address)), "cbrld")
      [] opcode = 19   -> Named(Work8To("e", RlAt(m, address)), "cbrle")
      [] opcode = 20   -> Named(Work8To("h", RlAt(m, address)), "cbrlh")
      [] opcode = 21   -> Named(Work8To("l", RlAt(m, address)), "cbrll")
      [] opcode = 22   -> Named(RlAt(m, address).m, "cbrlinhl")
      [] opcode = 23   -> Named(Work8To("a", RlAt(m, address)), "cbrla")
      [] opcode = 24   -> Named(Work8To("b", RlAt(m, address)), "cbrrb")
      [] opcode = 25   -> Named(Work8To("c", RlAt(m, address)), "cbrrc")
      [] opcode = 26   -> Named(Work8To("d", RlAt(m, address)), "cbrrd")
      [] opcode = 27   -> Named(Work8To("e", RlAt(m, address)), "cbrre")
      [] opcode = 28   -> Named(Work8To("h", RlAt(m, address)), "cbrrh")
      [] opcode = 29   -> Named(Work8To("l", RlAt(m, address)), "cbrrl")
      [] opcode = 30   -> Named(RlAt(m, address).m, "cbrrinhl")
      [] opcode = 31   -> Named(Work8To("a", RlAt(m, address)), "cbrra")
      [] opcode \in {70 + 8 * n : n \in 0 .. 7}
                     -> Named(cbbit(m, address, 2 ^ ((opcode - 70) \div 8)), "cbbit")
      [] opcode = 128 -> Named(Work8To("b", AndAt(m, address, 254)), "cbres0b")
      [] opcode = 134 -> Named(AndAt(m, address, 254).m, "cbres0inhl")
      [] opcode = 254 -> Named(OrAt(m, address, 128).m, "cbset7inhl")
      [] opcode = 255 -> Named(Work8To("a", OrAt(m, address, 128)), "cbset7a")
      [] OTHER        -> Named(m, "unmodelled")

\* idcb(regIXY): the displacement and the opcode are read with peeksb and
\* peekb; regR is not counted up
idcb(m, regIXY) ==
    LET address == (regIXY + MemPeeksb(m.mem, m.cpu.regPC)) % 65536
        pc1 == (m.cpu.regPC + 1) % 65536
        m1 == [m EXCEPT !.bus = address_on_bus(peekb(peeksb(@, m.cpu.regPC), pc1), pc1, 2),
                        !.cpu.memptr = address,
                        !.cpu.regPC = (pc1 + 1) % 65536]
    IN  Returning(IdcbDict(ReadByte(m, pc1), m1, address), regIXY)

\* LD B/C/D/E,IXH|IYH: ldbidh, ldcidh, lddidh, ldeidh store the high half in
\* the register `r` and hand the index register back
ldridh(r, m, regIXY) == Returning([m EXCEPT !.cpu[r] = regIXY \div 256], regIXY)

\* LD B/C/D/E,IXL|IYL: ldbidl, ldcidl, lddidl, ldeidl
ldridl(r, m, regIXY) == Returning([m EXCEPT !.cpu[r] = regIXY % 256], regIXY)

\* LD A,IXH|IYH: a static method; what it returns is assigned to the index
\* register by ix() / iy()
ldaidh(m, regIXY) == Returning(m, regIXY \div 256)

\* LD A,IXL|IYL: a static method as well
ldaidl(m, regIXY) == Returning(m, regIXY % 256)

\* ADD/ADC/SUB/SBC/AND/XOR/OR/CP A,IXH|IYH: addaidh .. cpaidh
aluaidh(k, m, regIXY) == Returning(Alu(k, m, regIXY \div 256), regIXY)

\* ADD/ADC/SUB/SBC/AND/XOR/OR/CP A,IXL|IYL: addaidl .. cpaidl
aluaidl(k, m, regIXY) == Returning(Alu(k, m, regIXY % 256), regIXY)

\* the entries of _ixiydict the model executes
IxIyDict(opcode, m, regIXY) ==
    CASE opcode = 33  -> LET r == ldidnn(m, regIXY) IN Returning(Named(r.m, "ldidnn"), r.value)
      [] opcode = 35  -> LET r == incid(m, regIXY) IN Returning(Named(r.m, "incid"), r.value)
      [] opcode = 34  -> LET r == ldtonnid(m, regIXY)
                         IN  Returning(Named(r.m, "ldtonnid"), r.value)
      [] opcode = 42  -> LET r == ldidfromnn(m, regIXY)
                         IN  Returning(Named(r.m, "ldidfromnn"), r.value)
      [] opcode \in {9, 25, 41, 57} ->
            LET i == (opcode - 9) \div 16 + 1
                r == addid(m, regIXY, <<get_reg_BC(m.cpu), get_reg_DE(m.cpu),
                                        regIXY, m.cpu.regSP>>[i])
            IN  Returning(Named(r.m, <<"addidbc", "addidde", "addidid", "addidsp">>[i]),
                          r.value)
      [] opcode \in {68, 76, 84, 92} ->
            LET i == (opcode - 68) \div 8 + 1
                r == ldridh(<<"regB", "regC", "regD", "regE">>[i], m, regIXY)
            IN  Returning(Named(r.m, <<"ldbidh", "ldcidh", "lddidh", "ldeidh">>[i]), r.value)
      [] opcode \in {69, 77, 85, 93} ->
            LET i == (opcode - 69) \div 8 + 1
                r == ldridl(<<"regB", "regC", "regD", "regE">>[i], m, regIXY)
            IN  Returning(Named(r.m, <<"ldbidl", "ldcidl", "lddidl", "ldeidl">>[i]), r.value)
      [] opcode = 124 -> LET r == ldaidh(m, regIXY) IN Returning(Named(r.m, "ldaidh"), r.value)
      [] opcode = 125 -> LET r == ldaidl(m, regIXY) IN Returning(Named(r.m, "ldaidl"), r.value)
      [] opcode \in {132, 140, 148, 156, 164, 172, 180, 188} ->
            LET k == (opcode - 132) \div 8
                r == aluaidh(k, m, regIXY)
            IN  Returning(Named(r.m, <<"addaidh", "adcaidh", "subaidh", "sbcaidh",
                                       "andaidh", "xoraidh", "oraidh", "cpaidh">>[k + 1]),
                          r.value)
      [] opcode \in {133, 141, 149, 157, 165, 173, 181, 189} ->
            LET k == (opcode - 133) \div 8
                r == aluaidl(k, m, regIXY)
            IN  Returning(Named(r.m, <<"addaidl", "adcaidl", "subaidl", "sbcaidl",
                                       "andaidl", "xoraidl", "oraidl", "cpaidl">>[k + 1]),
                          r.value)
      [] opcode = 203 -> idcb(m, regIXY)
      [] opcode = 221 -> Returning(Named(opcodedd(m), "opcodedd_ixy"), regIXY)
      [] opcode = 237 -> Returning(Named(opcodeed(m), "opcodeed_ixy"), regIXY)
      [] opcode = 253 -> Returning(Named(opcodefd(m), "opcodefd_ixy"), regIXY)
      [] OTHER        -> Returning(Named(m, "unmodelled"), regIXY)

\* code = self._ixiydict.get(opcode); main_cmds[opcode]() if code is None,
\* else self.regIX = code(self.regIX), or the same with regIY: id is the prefix
Indexed(opcode, m, id) ==
    IF opcode \in IxIyKeys
    THEN LET Assigned(r) == IF id = 221
                            THEN [r.m EXCEPT !.cpu.regIX = r.value]
                            ELSE [r.m EXCEPT !.cpu.regIY = r.value]
         IN  Assigned(IxIyDict(opcode, m, IF id = 221 THEN m.cpu.regIX
                                                      ELSE m.cpu.regIY))
    ELSE MainPlain(opcode, m)

ix(m) == Indexed(ReadByte(m, m.cpu.regPC), FetchNext(m), 221)

iy(m) == Indexed(ReadByte(m, m.cpu.regPC), FetchNext(m), 253)

ed(m) == EdDict(ReadByte(m, m.cpu.regPC), FetchNext(m))

MainCmds(opcode, m) ==
    CASE opcode = 221 -> ix(m)
      [] opcode = 253 -> iy(m)
      [] opcode = 237 -> ed(m)
      [] OTHER        -> MainPlain(opcode, m)

MutInterruptionSkipsHalt(m) ==
    LET m1 == [m EXCEPT !.cpu.lastFlagQ = FALSE,
                        !.cpu.halted = FALSE,
                        !.cpu.regPC = IF m.cpu.halted THEN (@ + 1) % 65536 ELSE @,
                        !.bus = interrupt_handling_time(@, 7),
                        !.cpu.regR = @ + 1,
                        !.cpu.ffIFF1 = FALSE,
                        !.cpu.ffIFF2 = FALSE]
        m2 == push(m1, m1.cpu.regPC)
        m3 == IF m2.cpu.modeINT = IM2
              THEN [m2 EXCEPT !.bus = peekw(@, m2.cpu.regI * 256 + 255),
                              !.cpu.regPC = ReadWord(m2, m2.cpu.regI * 256 + 255)]
              ELSE [m2 EXCEPT !.cpu.regPC = 56]
    IN  [m3 EXCEPT !.cpu.memptr = m3.cpu.regPC]

MutInterruptionKeepIFF2(m) ==
    LET m1 == [m EXCEPT !.cpu.lastFlagQ = FALSE,
                        !.cpu.halted = FALSE,
                        !.bus = interrupt_handling_time(@, 7),
                        !.cpu.regR = @ + 1,
                        !.cpu.ffIFF1 = FALSE]
        m2 == push(m1, m1.cpu.regPC)
        m3 == IF m2.cpu.modeINT = IM2
              THEN [m2 EXCEPT !.bus = peekw(@, m2.cpu.regI * 256 + 255),
                              !.cpu.regPC = ReadWord(m2, m2.cpu.regI * 256 + 255)]
              ELSE [m2 EXCEPT !.cpu.regPC = 56]
    IN  [m3 EXCEPT !.cpu.memptr = m3.cpu.regPC]

interruption(m) ==
    LET m1 == [m EXCEPT !.cpu.lastFlagQ = FALSE,
                        !.cpu.halted = FALSE,
                        !.bus = interrupt_handling_time(@, 7),
                        !.cpu.regR = @ + 1,
                        !.cpu.ffIFF1 = FALSE,
                        !.cpu.ffIFF2 = FALSE]
        m2 == push(m1, m1.cpu.regPC)
        m3 == IF m2.cpu.modeINT = IM2
              THEN [m2 EXCEPT !.bus = peekw(@, m2.cpu.regI * 256 + 255),
                              !.cpu.regPC = ReadWord(m2, m2.cpu.regI * 256 + 255)]
              ELSE [m2 EXCEPT !.cpu.regPC = 56]
    IN  [m3 EXCEPT !.cpu.memptr = m3.cpu.regPC]

MutNmiClearsIFF2(m) ==
    LET m1 == [m EXCEPT !.cpu.lastFlagQ = FALSE,
                        !.cpu.halted = FALSE,
                        !.bus = interrupt_handling_time(fetch_opcode(@, m.cpu.regPC), 1),
                        !.cpu.regR = @ + 1,
                        !.cpu.ffIFF1 = FALSE,
                        !.cpu.ffIFF2 = FALSE]
    IN  [push(m1, m1.cpu.regPC) EXCEPT !.cpu.regPC = 102, !.cpu.memptr = 102]

nmi(m) ==
    LET m1 == [m EXCEPT !.cpu.lastFlagQ = FALSE,
                        !.cpu.halted = FALSE,
                        !.bus = interrupt_handling_time(fetch_opcode(@, m.cpu.regPC), 1),
                        !.cpu.regR = @ + 1,
                        !.cpu.ffIFF1 = FALSE]
    IN  [push(m1, m1.cpu.regPC) EXCEPT !.cpu.regPC = 102, !.cpu.memptr = 102]

\* execute(), lines 316-357 for a CPU that is not halted: the opcode fetch and
\* the dispatch on prefixOpcode
Dispatch(m) ==
    LET opcode == ReadByte(m, m.cpu.regPC)
        m1 == [m EXCEPT !.bus = fetch_opcode(@, m.cpu.regPC),
                        !.cpu.regR = @ + 1,
                        !.cpu.regPC = (@ + 1) % 65536]
    IN  CASE m.cpu.prefixOpcode = 0 ->
                MainCmds(opcode, [m1 EXCEPT !.cpu.flagQ = FALSE, !.cpu.pendingEI = FALSE])
          [] m.cpu.prefixOpcode \in {221, 253} ->
                Indexed(opcode, [m1 EXCEPT !.cpu.prefixOpcode = 0], m.cpu.prefixOpcode)
          [] m.cpu.prefixOpcode = 237 ->
                EdDict(opcode, [m1 EXCEPT !.cpu.prefixOpcode = 0])
          [] OTHER -> Named(m1, "none")

-----------------------------------------------------------------------------
(* Events *)

Ev(kind, name, address, n) == [kind |-> kind, name |-> name, address |-> address, n |-> n]

NoEvent == Ev("none", "", 0, 0)

EmptyMem == [x \in {} |-> 0]

-----------------------------------------------------------------------------
(* Spec: Z80.execute() on a machine loaded with a small program *)

\* bytes placed from address base on
Place(base, bytes) == [a \in base .. (base + Len(bytes) - 1) |-> bytes[a - base + 1]]

\* the ROM image: EI; RET at 0x0038, RETN at 0x0066, and the word 0x9012 at
\* 0x00FF for an IM 2 vector fetched with I = 0
RomImage == Place(56, <<251, 201>>) @@ Place(102, <<237, 69>>) @@ Place(255, <<18, 144>>)

\* RAM outside the program: the IM 2 vector for I = 0x80 at 0x80FF, and a
\* handler RETI at 0x9012
RamImage == Place(33023, <<18, 144>>) @@ Place(36882, <<237, 77>>)

Programs ==
    { <<62, 254, 60, 118>>,        \* LD A,0xFE; INC A; HALT
      <<251, 118>>,                \* EI; HALT
      <<251, 0, 0>>,               \* EI; NOP; NOP
      <<243, 118>>,                \* DI; HALT
      <<221, 251, 253, 0>>,        \* DD EI; FD NOP
      <<237, 221, 251, 0>>,        \* ED DD (prefix left pending); EI; NOP
      <<237, 94, 251, 251, 0>> }   \* IM 2; EI; EI; NOP

\* stack pointers: plain RAM, contended RAM, over the IM 2 vector, and
\* wrapping through address 0
StackPointers == {36864, 20480, 33025, 1}

\* interrupt mode and I register
IntModes == {<<IM0, 0>>, <<IM1, 0>>, <<IM2, 128>>}

\* The machines a run starts from: the bus class, the T-state counter, the
\* address the program is loaded at (and PC), the program, SP, IFF1 = IFF2,
\* and the interrupt mode with I.
\*   - on the contended bus in plain RAM, starting inside the interrupt window
\*     (T-state 0) or just before the end of the frame (69880)
\*   - on the contended bus in contended RAM at the first contended T-state
\*   - on the plain bus
Configs ==
    [cls : {ZX48}, t : {0, 69880}, base : {32768}, prog : Programs,
     sp : StackPointers, iff : BOOLEAN, imi : IntModes]
    \cup
    [cls : {ZX48}, t : {14335}, base : {16384},
     prog : {<<62, 254, 60, 118>>, <<243, 118>>},
     sp : {36864, 20480}, iff : BOOLEAN, imi : {<<IM1, 0>>}]
    \cup
    [cls : {Plain}, t : {0}, base : {32768},
     prog : {<<62, 254, 60, 118>>, <<251, 118>>, <<237, 221, 251, 0>>},
     sp : {36864}, iff : BOOLEAN, imi : {<<IM1, 0>>}]

Init ==
    /\ \E cfg \in Configs :
          /\ cpu = [ResetCpu EXCEPT !.regPC = cfg.base, !.regSP = cfg.sp,
                                    !.ffIFF1 = cfg.iff, !.ffIFF2 = cfg.iff,
                                    !.modeINT = cfg.imi[1], !.regI = cfg.imi[2]]
          /\ mem = Place(cfg.base, cfg.prog) @@ RamImage @@ RomImage
          /\ bus = ScreenWhile([NewBus(cfg.cls) EXCEPT !.tstates = cfg.t])
    /\ pc = "idle"
    /\ limit = 0
    /\ event = NoEvent
    /\ prevEvent = NoEvent
    /\ steps = 0
    /\ nmis = 0

Machine == [cpu |-> cpu, bus |-> bus, mem |-> mem, name |-> ""]

SetMachine(m) == cpu' = m.cpu /\ bus' = m.bus /\ mem' = m.mem

Log(e) == event' = e /\ prevEvent' = event

\* windows of T-states handed to execute(): one instruction, and several
ExecWindows == {1, 30}

\* a caller invokes z80.execute(states_limit)
CallExecute ==
    /\ pc = "idle"
    /\ \E w \in ExecWindows : limit' = bus.tstates + w
    /\ pc' = "fetch"
    /\ UNCHANGED <<cpu, bus, mem, event, prevEvent, steps, nmis>>

\* `while self.clock.tstates < states_limit` fails: execute() returns
Return ==
    /\ pc = "fetch"
    /\ ~(bus.tstates < limit)
    /\ pc' = "idle"
    /\ limit' = 0
    /\ UNCHANGED <<cpu, bus, mem, event, prevEvent, steps, nmis>>

\* a caller invokes z80.trigger_NMI() between two calls of execute()
TriggerNMI ==
    /\ pc = "idle"
    /\ ~cpu.activeNMI
    /\ nmis < MaxNMIs
    /\ cpu' = [cpu EXCEPT !.activeNMI = TRUE]
    /\ nmis' = nmis + 1
    /\ UNCHANGED <<bus, mem, pc, limit, event, prevEvent, steps>>

\* a caller invokes z80.reset() between two calls of execute()
Reset ==
    /\ pc = "idle"
    /\ cpu' = reset(cpu)
    /\ Log(Ev("reset", "reset", cpu.regPC, 0))
    /\ UNCHANGED <<bus, mem, pc, limit, steps, nmis>>

\* one pass through lines 316-357 with the CPU halted: the fetch is made, R
\* counts, nothing else happens
HaltedFetch ==
    /\ pc = "fetch"
    /\ bus.tstates < limit
    /\ steps < MaxSteps
    /\ cpu.halted
    /\ bus' = fetch_opcode(bus, cpu.regPC)
    /\ cpu' = [cpu EXCEPT !.regR = @ + 1]
    /\ pc' = "check"
    /\ steps' = steps + 1
    /\ Log(Ev("haltnop", "halt", event.address, 0))
    /\ UNCHANGED <<mem, limit, nmis>>

\* mutant: the acceptance checks are made behind a pass that leaves a prefix
\* pending as well (no `continue`)
MutInstrChecksBehindPrefix ==
    /\ pc = "fetch"
    /\ bus.tstates < limit
    /\ steps < MaxSteps
    /\ ~cpu.halted
    /\ \E m \in {Dispatch(Machine)} :
           /\ SetMachine([m EXCEPT !.cpu.lastFlagQ = m.cpu.flagQ])
           /\ pc' = "check"
           /\ Log(Ev(IF m.cpu.prefixOpcode /= 0 THEN "prefix" ELSE "instr",
                     m.name, cpu.regPC, 0))
    /\ steps' = steps + 1
    /\ UNCHANGED <<limit, nmis>>

\* one pass through lines 316-357 with the CPU running: fetch, dispatch, then
\* `continue` when a prefix is left pending, else lastFlagQ = flagQ
Instr ==
    /\ pc = "fetch"
    /\ bus.tstates < limit
    /\ steps < MaxSteps
    /\ ~cpu.halted
    /\ \E m \in {Dispatch(Machine)} :
           IF m.cpu.prefixOpcode /= 0
           THEN /\ SetMachine(m)
                /\ pc' = "fetch"
                /\ Log(Ev("prefix", m.name, cpu.regPC, 0))
           ELSE /\ SetMachine([m EXCEPT !.cpu.lastFlagQ = m.cpu.flagQ])
                /\ pc' = "check"
                /\ Log(Ev("instr", m.name, cpu.regPC, 0))
    /\ steps' = steps + 1
    /\ UNCHANGED <<limit, nmis>>

\* line 367: the condition under which a maskable interrupt is accepted
IntCondition(c, b) == c.ffIFF1 /\ ~c.pendingEI /\ is_active_INT(b)

\* lines 362-365
AcceptNMI ==
    /\ pc = "check"
    /\ cpu.activeNMI
    /\ SetMachine(nmi([Machine EXCEPT !.cpu.activeNMI = FALSE]))
    /\ pc' = "fetch"
    /\ Log(Ev("nmi", "nmi", cpu.regPC, 0))
    /\ UNCHANGED <<limit, steps, nmis>>

\* lines 367-368
AcceptINT ==
    /\ pc = "check"
    /\ ~cpu.activeNMI
    /\ IntCondition(cpu, bus)
    /\ SetMachine(interruption(Machine))
    /\ pc' = "fetch"
    /\ Log(Ev("int", "interruption", cpu.regPC, 0))
    /\ UNCHANGED <<limit, steps, nmis>>

NoInterrupt ==
    /\ pc = "check"
    /\ ~cpu.activeNMI
    /\ ~IntCondition(cpu, bus)
    /\ pc' = "fetch"
    /\ UNCHANGED <<cpu, bus, mem, limit, event, prevEvent, steps, nmis>>

Next ==
    \/ CallExecute
    \/ Return
    \/ TriggerNMI
    \/ Reset
    \/ HaltedFetch
    \/ Instr
    \/ AcceptNMI
    \/ AcceptINT
    \/ NoInterrupt

Spec == Init /\ [][Next]_vars

-----------------------------------------------------------------------------
(* InstrSpec: execute() on a machine set up to run one instruction of      *)
(* interest, with the registers and the memory it works on drawn from sets *)

\* BIT n,(HL) for n = 0..7 with HL = 0x4000; MEMPTR high byte 0x12, 0x28 and
\* 0xFF; the byte at HL
BitConfigs ==
    [cls : {ZX48}, t : {0}, base : {32768},
     prog : {<<203, 70 + 8 * n>> : n \in 0 .. 7},
     iff : {FALSE}, a : {255}, flags : {254, 0}, carry : BOOLEAN,
     bc : {65535}, de : {65535}, hl : {16384}, memptr : {4660, 10240, 65535},
     data : {Place(16384, <<b>>) : b \in {0, 1, 40, 85, 128, 255}}]

\* LDIR of 1..4 bytes from 0x8000 to 0x9000 or to 0x5000, the program at
\* 0xA000, with and without interrupts enabled inside the interrupt window
LdirConfigs ==
    [cls : {ZX48, Plain}, t : {0}, base : {40960},
     prog : {<<237, 176>>},
     iff : BOOLEAN, a : {0, 255}, flags : {254, 0}, carry : {TRUE},
     bc : 1 .. 4, de : {36864, 20480}, hl : {32768}, memptr : {65535},
     data : {Place(32768, <<17, 34, 51, 68>>)}]

\* LD A,(0x4000) fetched at T-state 14335 from contended RAM (where the byte
\* read is its own opcode) and from plain RAM
LdConfigs ==
    [cls : {ZX48, Plain}, t : {14335}, base : {16384, 32768},
     prog : {<<58, 0, 64>>},
     iff : {FALSE}, a : {255}, flags : {254}, carry : {TRUE},
     bc : {65535}, de : {65535}, hl : {65535}, memptr : {65535},
     data : {Place(16384, <<165>>)}]

\* second bytes after ED that are no key of _eddict, and the three prefixes
EdSample == {0, 63, 119, 127, 128, 164, 191, 255, 221, 237, 253}

\* ED x followed by INC A
EdConfigs ==
    [cls : {ZX48, Plain}, t : {0, 30}, base : {32768},
     prog : {<<237, x, 60>> : x \in EdSample},
     iff : BOOLEAN, a : {255, 15}, flags : {254}, carry : {TRUE},
     bc : {65535}, de : {65535}, hl : {65535}, memptr : {65535},
     data : {EmptyMem}]

\* one, two or three DD/FD prefix bytes
PrefixRuns ==
    UNION {[1 .. n -> {221, 253}] : n \in 1 .. 3}

\* the opcodes run behind the prefixes: INC IX/IY and LD IX/IY,0xABCD, which
\* have an indexed form, and INC A, LD A,7, NOP and LD A,(0x4000), which
\* have none
PrefixedOpcodes ==
    {<<35>>, <<33, 205, 171>>, <<60>>, <<62, 7>>, <<0>>, <<58, 0, 64>>}

PrefixConfigs ==
    [cls : {ZX48, Plain}, t : {0}, base : {32768},
     prog : {p \o x : p \in PrefixRuns, x \in PrefixedOpcodes},
     iff : BOOLEAN, a : {255, 15}, flags : {254}, carry : {TRUE},
     bc : {65535}, de : {65535}, hl : {65535}, memptr : {65535},
     data : {Place(16384, <<165>>)}]

\* LD (BC),A, ADD HL,BC, JR NZ,e (backwards from the bottom of memory and
\* forwards from its top) and LD A,(0xFFFF)
WordConfigs ==
    [cls : {ZX48, Plain}, t : {0}, base : {32768},
     prog : {<<2>>, <<9>>, <<58, 255, 255>>},
     iff : BOOLEAN, a : {255, 1}, flags : {0, 255}, carry : {FALSE},
     bc : {40961, 40974}, de : {0}, hl : {65535, 4095}, memptr : {0},
     data : {Place(16384, <<165>>)}]
    \cup
    [cls : {ZX48, Plain}, t : {0}, base : {0, 65534, 32768},
     prog : {<<32, 128>>, <<32, 127>>, <<32, 254>>},
     iff : BOOLEAN, a : {0}, flags : {0, 64}, carry : {FALSE},
     bc : {0}, de : {0}, hl : {0}, memptr : {0},
     data : {Place(16384, <<165>>)}]

\* POP AF from a stack holding F = 0x45 and A = 0x12, and EX AF,AF', alone
\* and behind INC A
FlagConfigs ==
    [cls : {ZX48, Plain}, t : {0}, base : {32768},
     prog : {<<241>>, <<8>>, <<60, 241>>, <<60, 8>>, <<60, 0>>},
     iff : BOOLEAN, a : {255, 15}, flags : {0, 254}, carry : BOOLEAN,
     bc : {0}, de : {0}, hl : {0}, memptr : {0},
     data : {Place(36864, <<69, 18>>)}]

\* the bytes the rotations, RES and SET work on
IdcbBytes == {0, 66, 129, 255}

\* the byte at IX-2, IX+2 (ROM), IY-2 and IY+2 (screen RAM)
IdcbData(v) ==
    Place(4658, <<v>>) @@ Place(4662, <<v>>) @@ Place(22134, <<v>>) @@ Place(22138, <<v>>)

\* DD CB d op; HALT and FD CB d op; HALT with d = +2 and d = -2
IdcbConfigs ==
    [cls : {ZX48, Plain}, t : {0}, base : {32768},
     prog : {<<p, 203, d, op, 118>> : p \in {221, 253}, d \in {2, 254}, op \in IdcbOpcodes},
     iff : BOOLEAN, a : {85}, flags : {0, 254}, carry : BOOLEAN,
     bc : {21845}, de : {21845}, hl : {21845}, memptr : {0},
     data : {IdcbData(v) : v \in IdcbBytes}]

\* CB op; HALT on (HL), HL = IY+2
CbConfigs ==
    [cls : {ZX48, Plain}, t : {0}, base : {32768},
     prog : {<<203, op, 118>> : op \in {6, 22, 30, 134, 254}},
     iff : BOOLEAN, a : {85}, flags : {0, 254}, carry : BOOLEAN,
     bc : {21845}, de : {21845}, hl : {22138}, memptr : {0},
     data : {IdcbData(v) : v \in IdcbBytes}]

\* the instructions run between LD R,A and LD A,R: none, NOP, BIT 0,(IX+2),
\* INC IY behind two prefixes, RLC (HL), IM 1
RCounted ==
    {<<>>, <<0>>, <<221, 203, 2, 70>>, <<221, 253, 35>>, <<203, 6>>, <<237, 86>>}

\* LD R,A; ...; LD A,R with A = 0x7E, 0xFF and 0x80
RConfigs ==
    [cls : {ZX48, Plain}, t : {0}, base : {32768},
     prog : {<<237, 79>> \o x \o <<237, 95>> : x \in RCounted},
     iff : BOOLEAN, a : {126, 255, 128}, flags : {0}, carry : {FALSE},
     bc : {0}, de : {0}, hl : {40960}, memptr : {0},
     data : {IdcbData(129)}]

\* INC A, DEC A, INC B and DEC B on every byte, with the carry set and clear,
\* and HALT behind them
IncConfigs ==
    [cls : {Plain}, t : {0}, base : {32768},
     prog : {<<60, 118>>, <<61, 118>>},
     iff : {FALSE}, a : 0 .. 255, flags : {0, 254}, carry : BOOLEAN,
     bc : {0}, de : {0}, hl : {0}, memptr : {0},
     data : {EmptyMem}]
    \cup
    [cls : {Plain}, t : {0}, base : {32768},
     prog : {<<4, 118>>, <<5, 118>>},
     iff : {FALSE}, a : {0}, flags : {0, 254}, carry : BOOLEAN,
     bc : {256 * v : v \in 0 .. 255}, de : {0}, hl : {0}, memptr : {0},
     data : {EmptyMem}]

\* SCF and CCF behind INC A, INC B, NOP, POP AF and EX AF,AF', and HALT behind
\* them; B is 0x27 and the stack holds F = 0x28 and A = 0x00
QConfigs ==
    [cls : {Plain}, t : {0}, base : {32768},
     prog : {<<x, y, 118>> : x \in {60, 4, 0, 241, 8}, y \in {55, 63}},
     iff : {FALSE}, a : {0, 255, 7, 40}, flags : {0, 40, 8, 254}, carry : BOOLEAN,
     bc : {9984}, de : {0}, hl : {0}, memptr : {0},
     data : {Place(36864, <<40, 0>>)}]

InstrConfigs ==
    QConfigs \cup IncConfigs \cup RConfigs \cup BitConfigs \cup LdirConfigs \cup LdConfigs \cup EdConfigs \cup PrefixConfigs
        \cup WordConfigs \cup FlagConfigs \cup IdcbConfigs \cup CbConfigs

InitInstr ==
    /\ \E cfg \in InstrConfigs :
          /\ cpu = [ResetCpu EXCEPT !.regPC = cfg.base, !.regSP = 36864,
                                    !.ffIFF1 = cfg.iff, !.ffIFF2 = cfg.iff,
                                    !.modeINT = IM1,
                                    !.regIX = 4660, !.regIY = 22136,
                                    !.regAx = 20, !.regFx = 105,
                                    !.regA = cfg.a,
                                    !.sz5h3pnFlags = cfg.flags,
                                    !.carryFlag = cfg.carry,
                                    !.regB = cfg.bc \div 256, !.regC = cfg.bc % 256,
                                    !.regD = cfg.de \div 256, !.regE = cfg.de % 256,
                                    !.regH = cfg.hl \div 256, !.regL = cfg.hl % 256,
                                    !.memptr = cfg.memptr]
          /\ mem = Place(cfg.base, cfg.prog) @@ cfg.data @@ RamImage @@ RomImage
          /\ bus = ScreenWhile([NewBus(cfg.cls) EXCEPT !.tstates = cfg.t])
    /\ pc = "idle"
    /\ limit = 0
    /\ event = NoEvent
    /\ prevEvent = NoEvent
    /\ steps = 0
    /\ nmis = 0

NextInstr ==
    \/ CallExecute
    \/ Return
    \/ Instr
    \/ AcceptINT
    \/ NoInterrupt

InstrSpec == InitInstr /\ [][NextInstr]_vars

-----------------------------------------------------------------------------
(* OpSpec: execute() on single instructions of the restart, accumulator and
   index-register groups, from configurations that also choose SP, IX and IY *)

\* the bytes the accumulator group works on
AluBytes == {0, 1, 15, 16, 90, 127, 128, 255}

\* RST n and HALT, at 0x8000 and at the top of memory, with the stack in RAM
\* and wrapping below 0
RstConfigs ==
    [cls : {ZX48, Plain}, t : {0}, base : {32768, 65535}, sp : {36864, 0},
     prog : {<<199 + 8 * k, 118>> : k \in 0 .. 7},
     iff : BOOLEAN, a : {90}, flags : {0, 254}, carry : BOOLEAN,
     bc : {0}, de : {0}, hl : {0}, ix : {4660}, iy : {22136},
     data : {EmptyMem}]

\* op A,n; HALT and op A,B; HALT on every pair of AluBytes
AluConfigs ==
    [cls : {Plain}, t : {0}, base : {32768}, sp : {36864},
     prog : {<<198 + 8 * k, n, 118>> : k \in 0 .. 7, n \in AluBytes},
     iff : {FALSE}, a : AluBytes, flags : {0}, carry : BOOLEAN,
     bc : {0}, de : {0}, hl : {0}, ix : {4660}, iy : {22136},
     data : {EmptyMem}]
    \cup
    [cls : {Plain}, t : {0}, base : {32768}, sp : {36864},
     prog : {<<128 + 8 * k, 118>> : k \in 0 .. 7},
     iff : {FALSE}, a : AluBytes, flags : {0}, carry : BOOLEAN,
     bc : {256 * n : n \in AluBytes}, de : {0}, hl : {0}, ix : {4660}, iy : {22136},
     data : {EmptyMem}]

\* LD (nn),IX; LD IX,(nn); HALT and the same for IY, with nn in uncontended
\* RAM, in screen RAM and at 0xFFFE, over a word 0xBEEF already there
IndexWordConfigs ==
    [cls : {ZX48, Plain}, t : {0}, base : {32768}, sp : {36864},
     prog : {<<p, 34, nn % 256, nn \div 256, p, 42, nn % 256, nn \div 256, 118>> :
                p \in {221, 253}, nn \in {36864, 16384, 65534}},
     iff : BOOLEAN, a : {90}, flags : {0}, carry : {FALSE},
     bc : {0}, de : {0}, hl : {0}, ix : {4660, 255, 65280}, iy : {22136, 0, 65535},
     data : {Place(36864, <<239, 190>>) @@ Place(16384, <<239, 190>>)
             @@ Place(65534, <<239, 190>>)}]

\* one DD/FD instruction reading an index half, then HALT
IndexHalfConfigs ==
    [cls : {Plain}, t : {0}, base : {32768}, sp : {36864},
     prog : {<<p, op, 118>> :
                p \in {221, 253},
                op \in {68, 76, 84, 92, 124, 69, 77, 85, 93, 125}
                       \cup {132 + 8 * k : k \in 0..7} \cup {133 + 8 * k : k \in 0..7}},
     iff : {FALSE}, a : {90, 255}, flags : {0}, carry : BOOLEAN,
     bc : {0}, de : {0}, hl : {0}, ix : {4660, 33023}, iy : {22136, 65280},
     data : {EmptyMem}]

\* ADD HL,rr and ADD IX|IY,rr, then HALT, in uncontended memory
Add16Configs ==
    [cls : {ZX48, Plain}, t : {0, 14335}, base : {32768}, sp : {36864, 65535},
     prog : {<<op, 118>> : op \in {9, 25, 41, 57}}
            \cup {<<p, op, 118>> : p \in {221, 253}, op \in {9, 25, 41, 57}},
     iff : {FALSE}, a : {90}, flags : {0, 254}, carry : {FALSE},
     bc : {1, 61440}, de : {4096}, hl : {4095, 65535}, ix : {4660}, iy : {65535},
     data : {EmptyMem}]

OpConfigs ==
    RstConfigs \cup AluConfigs \cup IndexWordConfigs \cup IndexHalfConfigs
    \cup Add16Configs

InitOp ==
    /\ \E cfg \in OpConfigs :
          /\ cpu = [ResetCpu EXCEPT !.regPC = cfg.base, !.regSP = cfg.sp,
                                    !.ffIFF1 = cfg.iff, !.ffIFF2 = cfg.iff,
                                    !.modeINT = IM1,
                                    !.regIX = cfg.ix, !.regIY = cfg.iy,
                                    !.regA = cfg.a,
                                    !.sz5h3pnFlags = cfg.flags,
                                    !.carryFlag = cfg.carry,
                                    !.regB = cfg.bc \div 256, !.regC = cfg.bc % 256,
                                    !.regD = cfg.de \div 256, !.regE = cfg.de % 256,
                                    !.regH = cfg.hl \div 256, !.regL = cfg.hl % 256]
          /\ mem = [a \in {x % 65536 : x \in DOMAIN Place(cfg.base, cfg.prog)} |->
                       cfg.prog[((a - cfg.base) % 65536) + 1]]
                   @@ cfg.data @@ RomImage
          /\ bus = ScreenWhile([NewBus(cfg.cls) EXCEPT !.tstates = cfg.t])
    /\ pc = "idle"
    /\ limit = 0
    /\ event = NoEvent
    /\ prevEvent = NoEvent
    /\ steps = 0
    /\ nmis = 0

OpSpec == InitOp /\ [][NextInstr]_vars

-----------------------------------------------------------------------------
(* Spectrum.run: the frame loop.  Each frame sets the cursor to 0, runs     *)
(* execute() up to TSTATES_PER_INTERRUPT and calls end_frame().  The run of *)
(* src/spectrum.py splits the frame into several execute() calls with       *)
(* growing limits that end in execute(TSTATES_PER_INTERRUPT); nothing is    *)
(* done between them, so they run the same loop passes as the single call.  *)

\* frames run by the loop
MaxFrames == 2

\* the programs of the frame loop, each with the bus class, the start address
\* and IFF1 = IFF2:
\*   - interrupts enabled, NOPs from 0x8000 (the interrupt is taken after the
\*     first NOP, the handler at 0x0038 is EI; RET) up to LD A,(0x8000) at
\*     0xC439, which is fetched at T-state 69887
\*   - NOPs from 0x4000: the fetches are contended while the screen is drawn
\*   - DI; HALT
\*   - NOPs on the plain bus
\*   - interrupts enabled, seven DD/FD prefix bytes from 0x8000 at T-state 0
\*   - interrupts enabled, HALT; HALT: the first is left in the window the
\*     run starts in, the second waits for the window at the end of the frame
\* The stack is below 0x8000, off the path of every program.
FrameConfigs ==
    { [cls |-> ZX48, base |-> 32768, iff |-> TRUE,
       image |-> Place(50233, <<58, 0, 128>>)],
      [cls |-> ZX48, base |-> 16384, iff |-> FALSE, image |-> EmptyMem],
      [cls |-> ZX48, base |-> 32768, iff |-> FALSE,
       image |-> Place(32768, <<243, 118>>)],
      [cls |-> Plain, base |-> 32768, iff |-> TRUE, image |-> EmptyMem],
      [cls |-> ZX48, base |-> 32768, iff |-> TRUE,
       image |-> Place(32768, <<221, 253, 221, 221, 253, 221, 221>>)],
      [cls |-> ZX48, base |-> 32768, iff |-> TRUE,
       image |-> Place(32768, <<118, 118>>)] }

\* Spectrum.init: z80.reset() and bus_access.reset() on the new objects, then
\* the program is in place
InitFrame ==
    /\ \E cfg \in FrameConfigs :
          /\ cpu = [ResetCpu EXCEPT !.regPC = cfg.base, !.regSP = 32768,
                                    !.ffIFF1 = cfg.iff, !.ffIFF2 = cfg.iff,
                                    !.modeINT = IM1]
          /\ mem = cfg.image @@ RomImage
          /\ bus = BusReset(NewBus(cfg.cls))
    /\ pc = "idle"
    /\ limit = 0
    /\ event = NoEvent
    /\ prevEvent = NoEvent
    /\ steps = 0
    /\ nmis = 0

\* next_screen_byte_index = 0; execute(TSTATES_PER_INTERRUPT) is entered
StartFrame ==
    /\ pc = "idle"
    /\ bus.frames < MaxFrames
    /\ bus' = [bus EXCEPT !.next_screen_byte_index = 0]
    /\ limit' = TSTATES_PER_INTERRUPT
    /\ pc' = "fetch"
    /\ Log(Ev("frame", "start", cpu.regPC, bus.frames))
    /\ UNCHANGED <<cpu, mem, steps, nmis>>

\* a pass of the loop with the CPU halted
FrameHaltedFetch ==
    /\ pc = "fetch"
    /\ bus.tstates < limit
    /\ cpu.halted
    /\ bus' = fetch_opcode(bus, cpu.regPC)
    /\ cpu' = [cpu EXCEPT !.regR = @ + 1]
    /\ pc' = "check"
    /\ Log(Ev("haltnop", "halt", event.address, 0))
    /\ UNCHANGED <<mem, limit, steps, nmis>>

\* a pass of the loop with the CPU running
FrameInstr ==
    /\ pc = "fetch"
    /\ bus.tstates < limit
    /\ ~cpu.halted
    /\ \E m \in {Dispatch(Machine)} :
           IF m.cpu.prefixOpcode /= 0
           THEN /\ SetMachine(m)
                /\ pc' = "fetch"
                /\ Log(Ev("prefix", m.name, cpu.regPC, 0))
           ELSE /\ SetMachine([m EXCEPT !.cpu.lastFlagQ = m.cpu.flagQ])
                /\ pc' = "check"
                /\ Log(Ev("instr", m.name, cpu.regPC, 0))
    /\ UNCHANGED <<limit, steps, nmis>>

\* execute() returns to run()
FrameReturn ==
    /\ pc = "fetch"
    /\ ~(bus.tstates < limit)
    /\ pc' = "ended"
    /\ UNCHANGED <<cpu, bus, mem, limit, event, prevEvent, steps, nmis>>

\* bus_access.end_frame(TSTATES_PER_INTERRUPT)
EndFrame ==
    /\ pc = "ended"
    /\ bus' = end_frame(bus, TSTATES_PER_INTERRUPT)
    /\ pc' = "idle"
    /\ Log(Ev("frame", "end_frame", cpu.regPC, bus.frames))
    /\ UNCHANGED <<cpu, mem, limit, steps, nmis>>

NextFrame ==
    \/ StartFrame
    \/ FrameHaltedFetch
    \/ FrameInstr
    \/ AcceptINT
    \/ NoInterrupt
    \/ FrameReturn
    \/ EndFrame

FrameSpec == InitFrame /\ [][NextFrame]_vars

-----------------------------------------------------------------------------
(* PyGameEmulator.run: the frame loop of the pygame front end.  run.py      *)
(* builds the Spectrum, calls Spectrum.init() and starts this loop instead  *)
(* of Spectrum.run; each frame is execute(TSTATES_PER_INTERRUPT) followed   *)
(* by process_interrupt().                                                  *)

\* self.machine.z80.execute(TSTATES_PER_INTERRUPT) is entered; the loop
\* assigns nothing before the call
PyGameExecute ==
    /\ pc = "idle"
    /\ bus.frames < MaxFrames
    /\ limit' = TSTATES_PER_INTERRUPT
    /\ pc' = "fetch"
    /\ Log(Ev("frame", "execute", cpu.regPC, bus.frames))
    /\ UNCHANGED <<cpu, bus, mem, steps, nmis>>

\* process_interrupt(): end_frame(TSTATES_PER_INTERRUPT), then the keyboard
\* events and the video calls finish_screen(), update(), start_screen(); the
\* Video object is built without the bus (Video(memory, ports, ratio)), so of
\* the bus only the counter and the frame count change
ProcessInterrupt ==
    /\ pc = "ended"
    /\ bus' = end_frame(bus, TSTATES_PER_INTERRUPT)
    /\ pc' = "idle"
    /\ Log(Ev("frame", "process_interrupt", cpu.regPC, bus.frames))
    /\ UNCHANGED <<cpu, mem, limit, steps, nmis>>

NextPyGame ==
    \/ PyGameExecute
    \/ FrameHaltedFetch
    \/ FrameInstr
    \/ AcceptINT
    \/ NoInterrupt
    \/ FrameReturn
    \/ ProcessInterrupt

PyGameSpec == InitFrame /\ [][NextPyGame]_vars

-----------------------------------------------------------------------------
(* Vocabulary of the claims about execute() *)

\* the two addresses a push made now writes to
StackHi == (cpu.regSP - 1) % 65536
StackLo == (cpu.regSP - 2) % 65536

\* the step pushed `word`: SP went down by 2, the high byte is at the old
\* SP-1 and the low byte at the old SP-2 (a write into ROM leaves the byte)
PushedWord(word) ==
    /\ cpu'.regSP = StackLo
    /\ MemPeekb(mem', StackHi) =
          IF StackHi >= 16384 THEN (word \div 256) % 256 ELSE MemPeekb(mem, StackHi)
    /\ MemPeekb(mem', StackLo) =
          IF StackLo >= 16384 THEN word % 256 ELSE MemPeekb(mem, StackLo)

\* neither stack write of a push made now is delayed
StackUncontended == bus.cls = Plain \/ (~IsContended(StackHi) /\ ~IsContended(StackLo))

\* the step is one pass through the fetch-and-dispatch part of the loop
LoopPass == steps' = steps + 1

\* the contention delay of an access to address a begun at T-state t
DelayOf(a, t) == IF bus.cls = ZX48 /\ IsContended(a) THEN DelayTstates(t) ELSE 0

-----------------------------------------------------------------------------
(* C1: when an instruction completes with IFF1 set, pendingEI clear, no NMI
   pending and is_active_INT() true, the maskable interrupt is accepted: PC
   is pushed, IFF1 and IFF2 are cleared, PC becomes 0x0038 (IM 0/1) or the
   word read at (I<<8)|0xFF (IM 2), MEMPTR equals the new PC, and in IM 0/1
   with an uncontended stack the counter advances by 13.  With IFF1 clear no
   maskable interrupt is accepted. *)
C1_WhenAccepted ==
    (pc = "check" /\ cpu.ffIFF1 /\ ~cpu.pendingEI /\ ~cpu.activeNMI /\ is_active_INT(bus))
    => /\ event'.kind = "int"
       /\ PushedWord(cpu.regPC)
       /\ ~cpu'.ffIFF1
       /\ ~cpu'.ffIFF2
       /\ cpu'.regPC = IF cpu.modeINT = IM2
                       THEN MemPeekb(mem', (cpu.regI * 256 + 256) % 65536) * 256
                            + MemPeekb(mem', cpu.regI * 256 + 255)
                       ELSE 56
       /\ cpu'.memptr = cpu'.regPC
       /\ (cpu.modeINT /= IM2 /\ StackUncontended) => bus'.tstates = bus.tstates + 13

C1_NeverWithoutIFF1 ==
    (pc = "check" /\ ~cpu.ffIFF1) => event'.kind /= "int"

C1_MaskableInterrupt == [][C1_WhenAccepted /\ C1_NeverWithoutIFF1]_vars

\* an interrupt was accepted in IM 1 right after the first instruction
C1_Witness ==
    /\ event.kind = "int"
    /\ cpu.modeINT = IM1
    /\ cpu.regPC = 56
    /\ cpu.memptr = 56
    /\ ~cpu.ffIFF1
    /\ cpu.regSP = 36862
    /\ MemPeekb(mem, 36863) = event.address \div 256
    /\ MemPeekb(mem, 36862) = event.address % 256

-----------------------------------------------------------------------------
(* C2: the program 3E FE 3C 76 run from 0x8000.  Fetching the HALT opcode at
   0x8003 latches HALT; while HALT stays latched PC does not change, and each
   further pass of the loop makes one fetch of 4 T-states and changes no
   register other than R. *)
C2_Stays ==
    /\ (cpu.halted /\ cpu'.halted) => cpu'.regPC = cpu.regPC
    /\ (cpu.halted /\ LoopPass)
       => /\ cpu'.halted
          /\ (bus.cls = Plain \/ ~IsContended(cpu.regPC)) => bus'.tstates = bus.tstates + 4
          /\ cpu' = [cpu EXCEPT !.regR = cpu'.regR]
          /\ mem' = mem

\* the HALT opcode at 0x8003 is being fetched by a CPU that runs the program
FetchesHaltAt8003 ==
    /\ LoopPass
    /\ ~cpu.halted
    /\ cpu.prefixOpcode = 0
    /\ cpu.regPC = 32771
    /\ MemPeekb(mem, 32771) = 118

-----------------------------------------------------------------------------
(* C3: an interrupt or NMI accepted while HALT is latched clears the latch
   and pushes the address of the HALT opcode plus one; a return executed
   next resumes at the instruction after HALT, with HALT not latched. *)
C3_AcceptedWhileHalted ==
    (pc = "check" /\ cpu.halted /\ event'.kind \in {"int", "nmi"})
    => /\ event.name = "halt"
       /\ ~cpu'.halted
       /\ PushedWord((event.address + 1) % 65536)

C3_ReturnResumes ==
    (/\ event.kind \in {"int", "nmi"}
     /\ prevEvent.name = "halt"
     /\ LoopPass
     /\ event'.name \in {"ret", "reti", "retn"}
     /\ cpu.regSP >= 16384
     /\ cpu.regSP < 65535)
    => /\ cpu'.regPC = (prevEvent.address + 1) % 65536
       /\ ~cpu'.halted

C3_HaltInterrupted == [][C3_AcceptedWhileHalted /\ C3_ReturnResumes]_vars

\* an NMI taken from HALT has been returned from
C3_Witness ==
    /\ prevEvent.kind = "nmi"
    /\ event.name = "retn"
    /\ ~cpu.halted
    /\ MemPeekb(mem, (cpu.regPC - 1) % 65536) = 118

-----------------------------------------------------------------------------
(* C4: no maskable interrupt is accepted at the end of EI, even with IFF1
   set and is_active_INT() true; once the instruction after EI has run, the
   interrupt is accepted if it is still requested. *)
C4_NotAfterEI ==
    (pc = "check" /\ event.name = "ei") => event'.kind /= "int"

C4_AfterTheNext ==
    (/\ pc = "check"
     /\ prevEvent.name = "ei"
     /\ event.kind = "instr"
     /\ event.name /= "ei"
     /\ cpu.ffIFF1
     /\ ~cpu.activeNMI
     /\ is_active_INT(bus))
    => event'.kind = "int"

C4_EIDelay == [][C4_NotAfterEI /\ C4_AfterTheNext]_vars

\* EI at 0x8000 and the NOP after it have run, and the interrupt was taken
C4_Witness ==
    /\ event.kind = "int"
    /\ prevEvent.name = "nop"
    /\ prevEvent.address = 32769
    /\ steps = 2
    /\ MemPeekb(mem, 32768) = 251

-----------------------------------------------------------------------------
(* C5: with activeNMI set the NMI is serviced after the current instruction:
   PC is pushed, IFF1 cleared, IFF2 kept, PC = MEMPTR = 0x0066, activeNMI
   cleared, no maskable interrupt in the same pass. *)
C5_Serviced ==
    /\ event'.kind = "nmi"
    /\ pc' = "fetch"
    /\ PushedWord(cpu.regPC)
    /\ ~cpu'.ffIFF1
    /\ cpu'.ffIFF2 = cpu.ffIFF2
    /\ cpu'.regPC = 102
    /\ cpu'.memptr = 102
    /\ ~cpu'.activeNMI

\* as claimed: the counter advances by 11 for every PC and counter value
C5_Original ==
    [][(pc = "check" /\ cpu.activeNMI)
       => (C5_Serviced /\ bus'.tstates = bus.tstates + 11)]_vars

\* as amended: 11 plus the contention delays of the opcode fetch at PC and of
\* the two stack writes, which are all zero on the plain bus and when PC and
\* the stack lie outside contended memory
C5_NmiTiming ==
    LET t1 == bus.tstates + DelayOf(cpu.regPC, bus.tstates) + 4 + 1
        t2 == t1 + DelayOf(StackHi, t1) + 3
        t3 == t2 + DelayOf(StackLo, t2) + 3
    IN  /\ bus'.tstates = t3
        /\ (StackUncontended /\ (bus.cls = Plain \/ ~IsContended(cpu.regPC)))
           => bus'.tstates = bus.tstates + 11

C5_NMI ==
    [][(pc = "check" /\ cpu.activeNMI) => (C5_Serviced /\ C5_NmiTiming)]_vars

\* an NMI was serviced with interrupts enabled: IFF2 is still set
C5_Witness ==
    /\ event.kind = "nmi"
    /\ cpu.regPC = 102
    /\ ~cpu.ffIFF1
    /\ cpu.ffIFF2
    /\ ~cpu.activeNMI

-----------------------------------------------------------------------------
(* BusSpec: the timed primitives of a bus object called directly, from a    *)
(* bus whose counter stands at one of BusTStarts                            *)

\* T-state counter values the calls start from: the frame start, the T-states
\* around the first contended one, the end of the contended part of a line,
\* the last contended line, and the end of the frame
BusTStarts == {0, 14334, 14335, 14338, 14341, 14342, 14460, 57240, 69887}

\* addresses: ROM, both edges of contended RAM, inside it, plain RAM, the top
\* two
BusAddresses == {0, 16383, 16384, 20000, 32767, 32768, 65534, 65535}

\* ports: 0x00FE, 0x00FF, 0x40FE, 0x40FF, 0x7FFE, 0x7FFF, 0x80FE
BusPorts == {254, 255, 16638, 16639, 32766, 32767, 33022}

\* cycle counts handed to address_on_bus and interrupt_handling_time
BusCycles == {1, 2, 5, 7}

InitBus ==
    /\ cpu = ResetCpu
    /\ mem = EmptyMem
    /\ \E cls \in {Plain, ZX48}, t \in BusTStarts :
          bus = ScreenWhile([NewBus(cls) EXCEPT !.tstates = t])
    /\ pc = "idle"
    /\ limit = 0
    /\ event = NoEvent
    /\ prevEvent = NoEvent
    /\ steps = 0
    /\ nmis = 0

BusCall(b, m, e) ==
    /\ bus' = b
    /\ mem' = m
    /\ event' = e
    /\ steps' = steps + 1
    /\ UNCHANGED <<cpu, pc, limit, nmis, prevEvent>>

\* words written by pokew: 0x1234 and 0x00FF
BusWords == {4660, 255}

CallFetchOpcode ==
    /\ steps < MaxBusOps
    /\ \E a \in BusAddresses : BusCall(fetch_opcode(bus, a), mem, Ev("bus", "fetch_opcode", a, 0))

CallPeekb ==
    /\ steps < MaxBusOps
    /\ \E a \in BusAddresses : BusCall(peekb(bus, a), mem, Ev("bus", "peekb", a, 0))

CallPeeksb ==
    /\ steps < MaxBusOps
    /\ \E a \in BusAddresses : BusCall(peeksb(bus, a), mem, Ev("bus", "peeksb", a, 0))

CallPokeb ==
    /\ steps < MaxBusOps
    /\ \E a \in BusAddresses :
           BusCall(pokeb(bus, a), MemPokeb(mem, a, 18), Ev("bus", "pokeb", a, 18))

CallPeekw ==
    /\ steps < MaxBusOps
    /\ \E a \in BusAddresses : BusCall(peekw(bus, a), mem, Ev("bus", "peekw", a, ReadWord(Machine, a)))

CallPokew ==
    /\ steps < MaxBusOps
    /\ \E a \in BusAddresses, v \in BusWords :
           BusCall(pokew(bus, a), PokewMem(bus, mem, a, v), Ev("bus", "pokew", a, v))

CallAddressOnBus ==
    /\ steps < MaxBusOps
    /\ \E a \in BusAddresses, n \in BusCycles :
           BusCall(address_on_bus(bus, a, n), mem, Ev("bus", "address_on_bus", a, n))

CallInterruptHandlingTime ==
    /\ steps < MaxBusOps
    /\ \E n \in BusCycles :
           BusCall(interrupt_handling_time(bus, n), mem, Ev("bus", "interrupt_handling_time", 0, n))

CallInPort ==
    /\ steps < MaxBusOps
    /\ \E p \in BusPorts : BusCall(in_port(bus, p), mem, Ev("bus", "in_port", p, 0))

CallOutPort ==
    /\ steps < MaxBusOps
    /\ \E p \in BusPorts : BusCall(out_port(bus, p), mem, Ev("bus", "out_port", p, 0))

\* Spectrum.run: end_frame(TSTATES_PER_INTERRUPT) once execute() has returned,
\* that is with the counter at or beyond the frame budget
CallEndFrame ==
    /\ steps < MaxBusOps
    /\ bus.tstates >= TSTATES_PER_INTERRUPT
    /\ BusCall(end_frame(bus, TSTATES_PER_INTERRUPT), mem,
               Ev("bus", "end_frame", 0, TSTATES_PER_INTERRUPT))

\* Spectrum.init: bus_access.reset()
CallReset ==
    /\ steps < MaxBusOps
    /\ BusCall(BusReset(bus), mem, Ev("bus", "reset", 0, 0))

NextBus ==
    \/ CallFetchOpcode
    \/ CallPeekb
    \/ CallPeeksb
    \/ CallPokeb
    \/ CallPeekw
    \/ CallPokew
    \/ CallAddressOnBus
    \/ CallInterruptHandlingTime
    \/ CallInPort
    \/ CallOutPort
    \/ CallEndFrame
    \/ CallReset

BusSpec == InitBus /\ [][NextBus]_vars

-----------------------------------------------------------------------------
(* ClockSpec: the contended bus walked through every counter value below    *)
(* 2 * TSTATES_PER_INTERRUPT by interrupt_handling_time(1)                  *)

InitClock ==
    /\ cpu = ResetCpu
    /\ mem = EmptyMem
    /\ bus = NewBus(ZX48)
    /\ pc = "idle"
    /\ limit = 0
    /\ event = NoEvent
    /\ prevEvent = NoEvent
    /\ steps = 0
    /\ nmis = 0

Tick ==
    /\ bus.tstates + 1 < 2 * TSTATES_PER_INTERRUPT
    /\ bus' = interrupt_handling_time(bus, 1)
    /\ UNCHANGED <<cpu, mem, pc, limit, event, prevEvent, steps, nmis>>

ClockSpec == InitClock /\ [][Tick]_vars

-----------------------------------------------------------------------------
(* C6: is_active_INT() is true exactly when (counter mod
   TSTATES_PER_INTERRUPT) is in [0, 24), counter values 0 and
   TSTATES_PER_INTERRUPT included, and both bus classes answer alike. *)
C6_Original ==
    /\ is_active_INT(bus) = ((bus.tstates % TSTATES_PER_INTERRUPT) < INTERRUPT_LENGTH)
    /\ is_active_INT([bus EXCEPT !.cls = Plain]) = is_active_INT([bus EXCEPT !.cls = ZX48])

-----------------------------------------------------------------------------
(* C7: in both bus classes fetch_opcode costs 4 T-states, peekb, peeksb and
   pokeb 3, peekw and pokew 6; the contended class adds, for each access to
   an address in [16384, 32768), the table entry at the counter value the
   access starts at, and nothing for any other address. *)
C7_Half(t, a, n) == t + DelayOf(a, t) + n

C7_Original ==
    [][(event'.kind = "bus" /\ LoopPass)
       => LET t == bus.tstates
              a == event'.address
          IN  /\ event'.name = "fetch_opcode" => bus'.tstates = C7_Half(t, a, 4)
              /\ event'.name \in {"peekb", "peeksb", "pokeb"}
                 => bus'.tstates = C7_Half(t, a, 3)
              /\ event'.name \in {"peekw", "pokew"}
                 => bus'.tstates = C7_Half(C7_Half(t, a, 3), (a + 1) % 65536, 3)]_vars

-----------------------------------------------------------------------------
(* C8: for t in [14335, 57247) the table entry is in [0, 6]; it is
   6 - ((t - 14335) mod 8) in the first 128 T-states of each line of 224 and
   0 in the rest; every entry outside those lines is 0. *)
C8_InRange == bus.tstates < DelayLen

C8_Visible == 14335 <= bus.tstates /\ bus.tstates < 57247

\* as claimed: 6 - ((t - 14335) mod 8)
C8_Original ==
    LET d == bus.tstates - 14335
    IN  /\ C8_Visible
           => /\ DelayTstates(bus.tstates) \in 0 .. 6
              /\ DelayTstates(bus.tstates) =
                    IF d % TSTATES_PER_LINE < 128 THEN 6 - (d % 8) ELSE 0
        /\ (C8_InRange /\ ~C8_Visible) => DelayTstates(bus.tstates) = 0

\* as amended: 6 - ((t - 14335) mod 8) where that is not negative, else 0
C8_ContentionTable ==
    LET d == bus.tstates - 14335
    IN  /\ C8_Visible
           => /\ DelayTstates(bus.tstates) \in 0 .. 6
              /\ DelayTstates(bus.tstates) =
                    IF d % TSTATES_PER_LINE < 128 /\ d % 8 < 7 THEN 6 - (d % 8) ELSE 0
        /\ (C8_InRange /\ ~C8_Visible) => DelayTstates(bus.tstates) = 0

\* the eighth T-state of the first group of the last line
C8_Witness == bus.tstates = 57119 + 7 /\ DelayTstates(bus.tstates) = 0

-----------------------------------------------------------------------------
(* C9: the T-state cost of in_port and out_port by the port's high byte
   (contended when 16384 <= port < 32768) and low bit (contended when even);
   both operations follow the same rule. *)
C9_Contended1(t) == t + DelayTstates(t) + 1

C9_Contended3(t) == t + DelayTstates(t) + 3

C9_IsPortCall == event'.kind = "bus" /\ LoopPass /\ event'.name \in {"in_port", "out_port"}

\* as claimed: high and low -> four contended 1-cycle steps; high only -> one
\* contended cycle and 3 plain; low only -> one plain cycle and one contended
\* 3-cycle step; neither -> 4 plain
C9_Original ==
    [][(C9_IsPortCall /\ bus.cls = ZX48)
       => LET t == bus.tstates
              hi == IsContended(event'.address)
              lo == event'.address % 2 = 0
          IN  bus'.tstates =
                 IF hi /\ lo
                 THEN C9_Contended1(C9_Contended1(C9_Contended1(C9_Contended1(t))))
                 ELSE IF hi THEN C9_Contended1(t) + 3
                 ELSE IF lo THEN C9_Contended3(t + 1)
                 ELSE t + 4]_vars

\* as amended: high and low -> one contended 1-cycle step and one contended
\* 3-cycle step; high only -> four contended 1-cycle steps; the other two as
\* claimed; the plain bus always takes 4
C9_PortTiming ==
    [][C9_IsPortCall
       => LET t == bus.tstates
              hi == IsContended(event'.address)
              lo == event'.address % 2 = 0
          IN  bus'.tstates =
                 IF bus.cls = Plain THEN t + 4
                 ELSE IF hi /\ lo THEN C9_Contended3(C9_Contended1(t))
                 ELSE IF hi
                 THEN C9_Contended1(C9_Contended1(C9_Contended1(C9_Contended1(t))))
                 ELSE IF lo THEN C9_Contended3(t + 1)
                 ELSE t + 4]_vars

\* IN from port 0x40FE begun at T-state 14335: 6 + 1, then 0 + 3
C9_Witness ==
    /\ event.name = "in_port"
    /\ event.address = 16638
    /\ steps = 1
    /\ bus.cls = ZX48
    /\ bus.tstates = 14345

-----------------------------------------------------------------------------
(* C10: address_on_bus(addr, n) adds exactly n for an address outside
   [16384, 32768); for one inside, the contended bus makes n steps, each
   adding the table entry at the counter value reached so far, plus 1. *)
RECURSIVE C10_After(_, _)
C10_After(t, n) == IF n = 0 THEN t ELSE C10_After(t + DelayTstates(t) + 1, n - 1)

C10_AddressOnBus ==
    [][(event'.kind = "bus" /\ LoopPass /\ event'.name = "address_on_bus")
       => bus'.tstates =
             IF bus.cls = ZX48 /\ IsContended(event'.address)
             THEN C10_After(bus.tstates, event'.n)
             ELSE bus.tstates + event'.n]_vars

\* five cycles on a contended address begun at T-state 14338: 3+1, 0+1, 6+1,
\* 0+1, 6+1
C10_Witness ==
    /\ event.name = "address_on_bus"
    /\ event.address = 20000
    /\ event.n = 5
    /\ steps = 1
    /\ bus.cls = ZX48
    /\ bus.tstates = 14358

-----------------------------------------------------------------------------
(* C11: after each of the ten timed operations of the contended bus returns,
   the counter is strictly below screen_byte_tstate[next_screen_byte_index]:
   every screen byte whose T-state has been reached has been emitted. *)
TimedOps ==
    {"fetch_opcode", "peekb", "peeksb", "pokeb", "peekw", "pokew",
     "address_on_bus", "in_port", "out_port", "interrupt_handling_time"}

C11_Original ==
    (event.kind = "bus" /\ event.name \in TimedOps /\ bus.cls = ZX48)
    => bus.tstates < ScreenByteTstate(bus.next_screen_byte_index)

-----------------------------------------------------------------------------
(* C15: with the counter at 14335 just before the opcode of LD A,(0x4000)
   (3A 00 40) is fetched, executing the instruction advances the counter by
   a fixed number of T-states made of base costs and contention delays. *)
C15_Case ==
    /\ LoopPass
    /\ ~cpu.halted
    /\ cpu.prefixOpcode = 0
    /\ bus.tstates = 14335
    /\ MemPeekb(mem, cpu.regPC) = 58
    /\ MemPeekb(mem, (cpu.regPC + 1) % 65536) = 0
    /\ MemPeekb(mem, (cpu.regPC + 2) % 65536) = 64

\* as claimed: 25 T-states, delays 6, 5, 4 on base costs 4, 3, 3
C15_Original ==
    [][(C15_Case /\ bus.cls = ZX48) => bus'.tstates = bus.tstates + 25]_vars

\* as amended: four bus operations of 4, 3, 3, 3.  From contended memory the
\* delays are 6, 4, 5, 5 (33 T-states); from uncontended memory only the read
\* of 0x4000 is delayed, by 4 (17 T-states); the plain bus takes 13
C15_LdAFromNN ==
    [][C15_Case
       => /\ event'.name = "ldafromnn"
          /\ cpu'.regA = MemPeekb(mem, 16384)
          /\ bus'.tstates = bus.tstates +
                (IF bus.cls = Plain THEN 4 + 3 + 3 + 3
                 ELSE IF IsContended(cpu.regPC)
                 THEN (6 + 4) + (4 + 3) + (5 + 3) + (5 + 3)
                 ELSE 4 + 3 + 3 + (4 + 3))]_vars

\* the instruction has run from 0x8000 on the contended bus
C15_Witness ==
    /\ event.name = "ldafromnn"
    /\ event.address = 32768
    /\ bus.cls = ZX48
    /\ bus.tstates = 14335 + 17
    /\ cpu.regA = 165
    /\ steps = 1


-----------------------------------------------------------------------------
(* C16: BIT n,(HL) sets Z exactly when bit n of the byte at HL is 0, sets H,
   clears N, keeps the carry, and copies F bits 3 and 5 from bits 3 and 5 of
   the high byte of MEMPTR; for CB 7E with HL = 0x4000, MEMPTR = 0x1234 and a
   zero byte at 0x4000 that is Z=1, H=1, N=0, bit 3 = 0, bit 5 = 1. *)
C16_Case ==
    /\ LoopPass
    /\ ~cpu.halted
    /\ cpu.prefixOpcode = 0
    /\ MemPeekb(mem, cpu.regPC) = 203
    /\ MemPeekb(mem, (cpu.regPC + 1) % 65536) \in CbOpcodes

\* the bit number n encoded in the byte after the CB prefix
C16_BitNumber == (MemPeekb(mem, (cpu.regPC + 1) % 65536) - 70) \div 8

C16_Original ==
    [][C16_Case
       => LET byte == MemPeekb(mem, get_reg_HL(cpu))
              f == cpu'.sz5h3pnFlags
          IN  /\ event'.name = "bitfromhl"
              /\ is_zero_flag(f) = ((byte \div 2 ^ C16_BitNumber) % 2 = 0)
              /\ BitAnd(f, HALFCARRY_MASK) = HALFCARRY_MASK
              /\ BitAnd(f, ADDSUB_MASK) = 0
              /\ cpu'.carryFlag = cpu.carryFlag
              /\ BitAnd(f, FLAG_53_MASK) = BitAnd(cpu.memptr \div 256, FLAG_53_MASK)]_vars


-----------------------------------------------------------------------------
(* C17: LDIR started with BC = n >= 1, HL = s, DE = d on non-overlapping RAM
   copies one byte per iteration of the instruction and leaves PC on its ED
   prefix while BC is not 0, so that the copy goes on after an accepted
   interrupt returns; after n iterations HL = s+n, DE = d+n, BC = 0, the n
   destination bytes equal the source bytes, P/V = N = H = 0 and PC is at
   the instruction after LDIR (instance: n = 4, s = 0x8000, d = 0x9000). *)
C17_Case ==
    /\ LoopPass
    /\ ~cpu.halted
    /\ cpu.prefixOpcode = 0
    /\ MemPeekb(mem, cpu.regPC) = 237
    /\ MemPeekb(mem, (cpu.regPC + 1) % 65536) = 176

\* one iteration: a byte is copied, the pointers move, BC counts down, and
\* PC stays on the ED prefix unless BC has reached 0
C17_Iteration ==
    C17_Case
    => /\ event'.name = "ldir"
       /\ mem' = MemPokeb(mem, get_reg_DE(cpu), MemPeekb(mem, get_reg_HL(cpu)))
       /\ get_reg_HL(cpu') = (get_reg_HL(cpu) + 1) % 65536
       /\ get_reg_DE(cpu') = (get_reg_DE(cpu) + 1) % 65536
       /\ get_reg_BC(cpu') = (get_reg_BC(cpu) - 1) % 65536
       /\ cpu'.regPC = IF get_reg_BC(cpu') /= 0 THEN cpu.regPC
                       ELSE (cpu.regPC + 2) % 65536

\* the source bytes of the runs of LDIR, laid out from 0x8000
C17_Source == <<17, 34, 51, 68>>

\* on completion: k = HL - 0x8000 bytes have been copied to DE-k .. DE-1
C17_Completed ==
    (event.name = "ldir" /\ get_reg_BC(cpu) = 0)
    => LET k == get_reg_HL(cpu) - 32768
           d == get_reg_DE(cpu) - k
       IN  /\ k \in 1 .. Len(C17_Source)
           /\ d \in {36864, 20480}
           /\ \A i \in 0 .. k - 1 :
                 /\ MemPeekb(mem, 32768 + i) = C17_Source[i + 1]
                 /\ MemPeekb(mem, d + i) = C17_Source[i + 1]
           /\ BitAnd(cpu.sz5h3pnFlags, PARITY_MASK + ADDSUB_MASK + HALFCARRY_MASK) = 0
           /\ cpu.regPC = 40962
           /\ (~cpu.ffIFF1 => steps = k)

C17_Ldir == [][C17_Iteration]_vars /\ []C17_Completed

\* the instance of the spec, interrupted after its first iteration: the
\* handler (EI, RET) has returned and the remaining three iterations have run
C17_Witness ==
    /\ event.name = "ldir"
    /\ bus.cls = ZX48
    /\ cpu.ffIFF1
    /\ steps = 6
    /\ get_reg_BC(cpu) = 0
    /\ get_reg_HL(cpu) = 32772
    /\ get_reg_DE(cpu) = 36868
    /\ cpu.regPC = 40962
    /\ \A i \in 0 .. 3 : MemPeekb(mem, 36864 + i) = C17_Source[i + 1]


-----------------------------------------------------------------------------
(* C20: for every second byte x that is no ED-prefixed instruction, 0xDD,
   0xED and 0xFD included, ED x is a no-op: PC advances by 2, R by 2, the
   counter by 8 T-states when the fetches are not delayed, and no other
   register, flag, memory byte, interrupt state or prefix state changes, so
   the byte after x is decoded as a fresh unprefixed opcode. *)
C20_NoInstruction == (0 .. 255) \ (EdKeys \ {221, 237, 253})

C20_Case ==
    /\ LoopPass
    /\ ~cpu.halted
    /\ cpu.prefixOpcode = 0
    /\ MemPeekb(mem, cpu.regPC) = 237
    /\ MemPeekb(mem, (cpu.regPC + 1) % 65536) \in C20_NoInstruction

\* the registers after a no-op of two bytes; flagQ, lastFlagQ and pendingEI
\* are bookkeeping of the loop and are left out of the comparison
C20_NoOp ==
    /\ [cpu' EXCEPT !.flagQ = cpu.flagQ, !.lastFlagQ = cpu.lastFlagQ,
                    !.pendingEI = cpu.pendingEI]
       = [cpu EXCEPT !.regPC = (@ + 2) % 65536, !.regR = @ + 2]
    /\ cpu'.prefixOpcode = 0
    /\ mem' = mem
    /\ bus'.tstates = bus.tstates + 8
    /\ pc' = "check"

C20_Original == [][C20_Case => C20_NoOp]_vars


-----------------------------------------------------------------------------
(* C14: the T-state counter never decreases while a frame executes: each of
   the timed bus operations leaves it equal or larger and leaves the frame
   counter alone; end_frame lowers it by exactly the frame budget and adds 1
   to the frame counter; reset sets it to 0 and leaves the frame counter. *)
C14_Step ==
    CASE event'.name \in TimedOps ->
            /\ bus'.tstates >= bus.tstates
            /\ bus'.frames = bus.frames
      [] event'.name = "end_frame" ->
            /\ bus'.tstates = bus.tstates - TSTATES_PER_INTERRUPT
            /\ bus'.frames = bus.frames + 1
      [] event'.name = "reset" ->
            /\ bus'.tstates = 0
            /\ bus'.frames = bus.frames
      [] OTHER -> FALSE

C14_Monotonic == [][LoopPass => C14_Step]_vars

\* a frame has been ended after a bus operation took the counter past the
\* frame budget
C14_Witness ==
    /\ event.name = "end_frame"
    /\ steps = 2
    /\ bus.frames = 1
    /\ bus.tstates = 3


-----------------------------------------------------------------------------
(* C19: pokew(a, v) followed by peekw(a) returns v for every RAM address a
   and every word v, on both bus variants; a write to an address below 16384
   is ignored. *)
C19_RoundTripOn(addresses) ==
    (/\ event.name = "pokew"
     /\ event'.name = "peekw"
     /\ event'.address = event.address
     /\ event.address \in addresses)
    => event'.n = event.n

\* no byte below 16384 is changed by a write
C19_RomKept ==
    event'.name \in {"pokeb", "pokew"}
    => \A x \in (DOMAIN mem') \cup (DOMAIN mem) :
          x < 16384 => MemPeekb(mem', x) = MemPeekb(mem, x)

\* as claimed: for every a in [16384, 65535], a = 65535 included
C19_Original ==
    [][C19_RoundTripOn(16384 .. 65535) /\ C19_RomKept]_vars

\* as amended: for every a in [16384, 65534]; at 65535 the high byte goes to
\* address 0 (contended bus) or to 65536 (base class) and is not read back
C19_RoundTrip ==
    [][C19_RoundTripOn(16384 .. 65534) /\ C19_RomKept]_vars

\* 0x1234 written at 65534 and read back
C19_Witness ==
    /\ event.name = "peekw"
    /\ event.address = 65534
    /\ event.n = 4660
    /\ steps = 2
    /\ MemPeekb(mem, 65534) = 52
    /\ MemPeekb(mem, 65535) = 18


-----------------------------------------------------------------------------
(* C18: after z80.reset(), whatever state the CPU was in: PC = 0,
   SP = 0xFFFF, A = 0xFF, F = 0xFF, IFF1 and IFF2 clear, interrupt mode 0,
   HALT not latched, pendingEI and activeNMI clear, no prefix pending. *)
C18_AfterReset ==
    /\ cpu'.regPC = 0
    /\ cpu'.regSP = 65535
    /\ cpu'.regA = 255
    /\ get_flags(cpu') = 255
    /\ ~cpu'.ffIFF1
    /\ ~cpu'.ffIFF2
    /\ cpu'.modeINT = IM0
    /\ ~cpu'.halted
    /\ ~cpu'.pendingEI
    /\ ~cpu'.activeNMI
    /\ cpu'.prefixOpcode = 0

\* the step is a call of reset(): made between two calls of execute(), and
\* neither a call of execute() nor of trigger_NMI()
C18_Case ==
    /\ pc = "idle"
    /\ pc' = "idle"
    /\ nmis' = nmis
    /\ event'.kind = "reset"

C18_Reset == [][C18_Case => C18_AfterReset]_vars

\* reset() was called on a CPU that EI; HALT had left halted with interrupts
\* enabled
C18_Witness ==
    /\ event.kind = "reset"
    /\ prevEvent.name = "halt"
    /\ steps = 2
    /\ MemPeekb(mem, 32768) = 251
    /\ cpu.regPC = 0
    /\ ~cpu.halted
    /\ ~cpu.ffIFF1
    /\ cpu.modeINT = IM0
    /\ cpu.regI = 0


-----------------------------------------------------------------------------
(* C12: in one frame (cursor set to 0 at its start, execute() run up to
   TSTATES_PER_INTERRUPT) the contended bus invokes the rasterizer once per
   8-pixel cell, 32 cells on each of the 192 scanlines, 6144 times in all, in
   increasing cursor order, and never before the T-state scheduled for the
   cell. *)
\* the rasterizer is invoked once with every increment of the cursor, so the
\* cursor at the end of execute() is the number of invocations of the frame
C12_CellsPerFrame == (SCREEN_WIDTH \div 8) * SCREEN_HEIGHT

C12_Original ==
    (pc = "ended" /\ bus.cls = ZX48)
    => bus.next_screen_byte_index = C12_CellsPerFrame


-----------------------------------------------------------------------------
(* C13: in every frame of the frame loop, when execute(TSTATES_PER_INTERRUPT)
   returns the counter is at least TSTATES_PER_INTERRUPT and exceeds it by
   less than a bound, and after end_frame it lies between 0 and that bound. *)
\* the largest cost of one instruction: INC (IX+d), two opcode fetches and
\* then 3, 5, 3, 1 and 3 T-states
MaxInstructionLength == 4 + 4 + 3 + 5 + 3 + 1 + 3

\* the largest cost of accepting a maskable interrupt: 7 T-states, the push
\* and, in IM 2, the read of the vector
MaxAcceptLength == 7 + (3 + 3) + (3 + 3)

C13_Within(bound) ==
    /\ pc = "ended"
       => /\ TSTATES_PER_INTERRUPT <= bus.tstates
          /\ bus.tstates < TSTATES_PER_INTERRUPT + bound
    /\ pc = "idle"
       => /\ 0 <= bus.tstates
          /\ bus.tstates < bound

\* as claimed: the bound is max_instruction_length
C13_Original == C13_Within(MaxInstructionLength)

\* as amended: the instruction that crosses the frame budget may be followed,
\* inside the same call of execute(), by the acceptance of the interrupt
C13_FrameResidue == C13_Within(MaxInstructionLength + MaxAcceptLength)

\* LD A,(0x8000) was fetched at T-state 69887 and the interrupt was accepted
\* after it: execute() has returned 25 T-states past the frame budget
C13_Witness ==
    /\ pc = "ended"
    /\ event.kind = "int"
    /\ prevEvent.name = "ldafromnn"
    /\ bus.frames = 0
    /\ bus.tstates = TSTATES_PER_INTERRUPT + 25


-----------------------------------------------------------------------------
(* C21: after one or more consecutive DD/FD prefix bytes followed by opcode
   X, X works on the index register selected by the last prefix (IX for DD,
   IY for FD) and leaves the other one alone; when X has no indexed form its
   effect on registers, flags, memory and PC is that of unprefixed X, with 4
   more T-states and one more R increment per prefix byte. *)
\* the prefix in force for the next byte, and where that byte is: a prefix
\* left pending by the pass before, or the DD/FD this pass starts with
C21_Prefix ==
    IF cpu.prefixOpcode /= 0 THEN cpu.prefixOpcode ELSE MemPeekb(mem, cpu.regPC)

C21_Consumed == IF cpu.prefixOpcode /= 0 THEN 0 ELSE 1

C21_XAddress == (cpu.regPC + C21_Consumed) % 65536

C21_X == MemPeekb(mem, C21_XAddress)

C21_Case ==
    /\ LoopPass
    /\ ~cpu.halted
    /\ cpu.prefixOpcode \in {0, 221, 253}
    /\ C21_Prefix \in {221, 253}

\* the registers apart from the selected index register
C21_Rest(c) ==
    IF C21_Prefix = 221 THEN [c EXCEPT !.regIX = 0] ELSE [c EXCEPT !.regIY = 0]

C21_Selected(c) == IF C21_Prefix = 221 THEN c.regIX ELSE c.regIY

\* the machine on which unprefixed X is about to be fetched, the prefix bytes
\* this pass consumes paid for
C21_Unprefixed ==
    [Machine EXCEPT !.cpu.prefixOpcode = 0,
                    !.cpu.regPC = C21_XAddress,
                    !.cpu.regR = @ + C21_Consumed,
                    !.bus.tstates = @ + 4 * C21_Consumed]

\* X is another prefix: it replaces the one in force and nothing else changes
C21_Replaced ==
    /\ cpu' = [cpu EXCEPT !.prefixOpcode = C21_X,
                          !.regPC = (C21_XAddress + 1) % 65536,
                          !.regR = @ + C21_Consumed + 1,
                          !.flagQ = FALSE, !.pendingEI = FALSE]
    /\ bus'.tstates = bus.tstates + 4 * (C21_Consumed + 1)
    /\ mem' = mem
    /\ pc' = "fetch"

\* X has an indexed form: only the selected register takes the result
C21_OnSelected ==
    /\ C21_Selected(cpu') =
          IF C21_X = 35 THEN (C21_Selected(cpu) + 1) % 65536
          ELSE MemPeekb(mem, (C21_XAddress + 2) % 65536) * 256
               + MemPeekb(mem, (C21_XAddress + 1) % 65536)
    /\ C21_Rest(cpu') =
          C21_Rest([cpu EXCEPT !.prefixOpcode = 0,
                               !.regPC = (C21_XAddress + (IF C21_X = 35 THEN 1 ELSE 3)) % 65536,
                               !.regR = @ + C21_Consumed + 1,
                               !.flagQ = FALSE, !.pendingEI = FALSE,
                               !.lastFlagQ = FALSE])
    /\ bus'.tstates = bus.tstates + 4 * (C21_Consumed + 1) + (IF C21_X = 35 THEN 2 ELSE 6)
    /\ mem' = mem
    /\ pc' = "check"

\* X has no indexed form: the pass ends as unprefixed X ends
C21_AsUnprefixed ==
    LET d == Dispatch(C21_Unprefixed)
    IN  /\ cpu' = [d.cpu EXCEPT !.lastFlagQ = d.cpu.flagQ]
        /\ bus' = d.bus
        /\ mem' = d.mem
        /\ event'.name = d.name
        /\ pc' = "check"

C21_Step ==
    C21_Case
    => CASE C21_X \in {221, 253} -> C21_Replaced
         [] C21_X \in {33, 35}   -> C21_OnSelected
         [] C21_X \notin IxIyKeys -> C21_AsUnprefixed
         [] OTHER                -> TRUE

C21_LastPrefixSelects == [][C21_Step]_vars

\* DD FD DD 23: INC IX has run behind three prefixes, IY is as it was
C21_Witness ==
    /\ event.name = "incid"
    /\ prevEvent.name = "opcodedd_ixy"
    /\ steps = 3
    /\ MemPeekb(mem, 32768) = 221
    /\ MemPeekb(mem, 32769) = 253
    /\ MemPeekb(mem, 32770) = 221
    /\ cpu.regIX = 4661
    /\ cpu.regIY = 22136
    /\ cpu.regR = 4
    /\ bus.tstates = 18


\* ---------------------------------------------------------------------------
\* C22: PC, SP, IX, IY and MEMPTR are always within 0 .. 65535 and every
\* 8-bit register within 0 .. 255.
C22_Words == {cpu.regPC, cpu.regSP, cpu.regIX, cpu.regIY, cpu.memptr}

C22_Bytes ==
    {cpu.regA, cpu.regB, cpu.regC, cpu.regD, cpu.regE, cpu.regH, cpu.regL,
     cpu.regI}

C22_Original ==
    /\ C22_Words \subseteq 0 .. 65535
    /\ C22_Bytes \subseteq 0 .. 255


\* ---------------------------------------------------------------------------
\* C23: after every completed instruction lastFlagQ is set exactly when the
\* instruction wrote F, and it is clear after an interrupt is accepted.

\* the handlers of the model that compute flags: each assigns sz5h3pnFlags
\* and sets flagQ
C23_ComputesF ==
    {"inca", "incb", "deca", "decb", "addhlbc", "scf", "ccf", "ldir", "ldar",
     "bitfromhl", "rlcfromhl", "rlfromhl", "rrfromhl", "cbbit",
     "cbrlcb", "cbrlcc", "cbrlcd", "cbrlce", "cbrlch", "cbrlcl", "cbrlcinhl", "cbrlca",
     "cbrlb", "cbrlc", "cbrld", "cbrle", "cbrlh", "cbrll", "cbrlinhl", "cbrla",
     "cbrrb", "cbrrc", "cbrrd", "cbrre", "cbrrh", "cbrrl", "cbrrinhl", "cbrra"}

\* the handlers that load F from the stack or from F': set_reg_AF and set_flags
\* assign sz5h3pnFlags and carryFlag and leave flagQ alone
C23_LoadsF == {"popaf", "ex_af_af"}

C23_Completed == LoopPass /\ pc' = "check" /\ event'.kind = "instr"

C23_Accepted == pc = "check" /\ pc' = "fetch" /\ event'.kind = "int"

C23_OriginalStep ==
    /\ C23_Completed
          => (cpu'.lastFlagQ <=> event'.name \in C23_ComputesF \cup C23_LoadsF)
    /\ C23_Accepted => ~cpu'.lastFlagQ

C23_Step ==
    /\ C23_Completed => (cpu'.lastFlagQ <=> event'.name \in C23_ComputesF)
    /\ C23_Accepted => ~cpu'.lastFlagQ

C24_First == MemPeekb(mem, cpu.regPC)

C24_Second == MemPeekb(mem, (cpu.regPC + 1) % 65536)

C24_Pass == LoopPass /\ pc = "fetch" /\ ~cpu.halted

\* the bytes a pass fetches as opcodes: the byte at PC, and the byte behind a
\* CB, DD, ED or FD met with no prefix pending
C24_Fetched ==
    IF cpu.prefixOpcode = 0 /\ C24_First \in {203, 221, 237, 253} THEN 2 ELSE 1

\* 1 when the pass runs DD CB d op or FD CB d op: op is read after d
C24_IndexedBitOpcode ==
    IF \/ cpu.prefixOpcode \in {221, 253} /\ C24_First = 203
       \/ cpu.prefixOpcode = 0 /\ C24_First \in {221, 253} /\ C24_Second = 203
    THEN 1 ELSE 0

C24_Counts(n) ==
    /\ get_reg_R(cpu') % 128 = (get_reg_R(cpu) + n) % 128
    /\ cpu'.regRbit7 = cpu.regRbit7

C24_Accepted == pc = "check" /\ pc' = "fetch" /\ event'.kind = "int"

C24_OriginalStep ==
    C24_Pass
    => /\ event'.name = "ldra" => get_reg_R(cpu') = cpu.regA
       /\ event'.name /= "ldra" => C24_Counts(C24_Fetched + C24_IndexedBitOpcode)
       /\ event'.name = "ldar" => cpu'.regA = get_reg_R(cpu')

C24_Original == [][C24_OriginalStep]_vars

C24_Step ==
    /\ C24_Pass
       => /\ event'.name = "ldra" => get_reg_R(cpu') = cpu.regA
          /\ event'.name /= "ldra" => C24_Counts(C24_Fetched)
          /\ event'.name = "ldar" => cpu'.regA = get_reg_R(cpu')
    /\ C24_Accepted => C24_Counts(1)

\* C24, amended: the opcode byte of DD CB d op and FD CB d op is read as data
\* and is not counted, so such an instruction adds 2 to R; the acceptance of
\* an interrupt adds 1.
C24_RCounts == [][C24_Step]_vars

\* LD R,A with A = 0xFF; BIT 0,(IX+2); LD A,R with no interrupt between: bits
\* 0-6 went from 127 round to 3 (two for DD CB, two for ED 5F) and bit 7 is
\* still set
C24_Witness ==
    /\ event.name = "ldar" /\ prevEvent.name = "cbbit"
    /\ cpu.regPC = 32776
    /\ ~cpu.ffIFF1
    /\ cpu.regA = 131


\* ---------------------------------------------------------------------------
\* C25: INC r and DEC r leave the carry flag as it was; after INC, H is set
\* exactly when the low nibble of the result is 0 and P/V exactly when the
\* result is 0x80, with N clear; after DEC, H exactly when the low nibble is
\* 0xF and P/V exactly when the result is 0x7F, with N set; S, Z and bits 3
\* and 5 come from the result.
C25_Inc == LoopPass /\ event'.name \in {"inca", "incb"}

C25_Dec == LoopPass /\ event'.name \in {"deca", "decb"}

\* the operand before and the result after
C25_Before == IF event'.name \in {"inca", "deca"} THEN cpu.regA ELSE cpu.regB

C25_Result == IF event'.name \in {"inca", "deca"} THEN cpu'.regA ELSE cpu'.regB

C25_Flag(mask) == BitAnd(cpu'.sz5h3pnFlags, mask) /= 0

C25_FromResult ==
    /\ C25_Flag(SIGN_MASK) <=> C25_Result > 127
    /\ C25_Flag(ZERO_MASK) <=> C25_Result = 0
    /\ BitAnd(cpu'.sz5h3pnFlags, FLAG_53_MASK) = BitAnd(C25_Result, FLAG_53_MASK)
    /\ cpu'.carryFlag = cpu.carryFlag
    /\ BitAnd(cpu'.sz5h3pnFlags, CARRY_MASK) = 0

C25_Step ==
    /\ C25_Inc
       => /\ C25_Result = (C25_Before + 1) % 256
          /\ C25_Flag(HALFCARRY_MASK) <=> C25_Result % 16 = 0
          /\ C25_Flag(PARITY_MASK) <=> C25_Result = 128
          /\ ~C25_Flag(ADDSUB_MASK)
          /\ C25_FromResult
    /\ C25_Dec
       => /\ C25_Result = (C25_Before - 1) % 256
          /\ C25_Flag(HALFCARRY_MASK) <=> C25_Result % 16 = 15
          /\ C25_Flag(PARITY_MASK) <=> C25_Result = 127
          /\ C25_Flag(ADDSUB_MASK)
          /\ C25_FromResult

C25_IncDec == [][C25_Step]_vars

\* DEC A on 0x80 with the carry set: 0x7F, with H, P/V, N, bits 3 and 5 and
\* the carry still set
C25_Witness ==
    /\ event.name = "deca"
    /\ cpu.regA = 127
    /\ cpu.sz5h3pnFlags = HALFCARRY_MASK + PARITY_MASK + ADDSUB_MASK + FLAG_53_MASK
    /\ cpu.carryFlag


\* ---------------------------------------------------------------------------
\* C26: after SCF or CCF bits 3 and 5 of F are those of ((lastQ XOR F) OR A),
\* F and A as they were before, where lastQ is F when the instruction just
\* before modified the flags and 0 otherwise.
C26_Case == LoopPass /\ event'.name \in {"scf", "ccf"}

C26_Bits(lastQ) ==
    BitAnd(cpu'.sz5h3pnFlags, FLAG_53_MASK)
        = BitAnd(BitOr(BitXor(lastQ, cpu.sz5h3pnFlags), cpu.regA), FLAG_53_MASK)

\* the instruction before was one that writes F
C26_AfterWrite ==
    event.kind = "instr" /\ event.name \in C23_ComputesF \cup C23_LoadsF

\* the instruction before was one that computes flags
C26_AfterCompute == event.kind = "instr" /\ event.name \in C23_ComputesF

C26_OriginalStep ==
    C26_Case => C26_Bits(IF C26_AfterWrite THEN cpu.sz5h3pnFlags ELSE 0)

C26_Step ==
    C26_Case => C26_Bits(IF C26_AfterCompute THEN cpu.sz5h3pnFlags ELSE 0)

STRIDE == 256 * 8

\* a mutant of colormap: the paper takes bit 7 (flash) as well
MutColormapFlash(attr) ==
    <<(attr % 8) + (IF (attr \div 64) % 2 = 1 THEN 8 ELSE 0), attr \div 8>>

\* colormap[attr]: (ink, paper); attr & 0b1111000 keeps bits 3 to 6
colormap(attr) ==
    <<(attr % 8) + (IF (attr \div 64) % 2 = 1 THEN 8 ELSE 0),
      ((attr % 128) - (attr % 8)) \div 8>>

\* pixels[7 - bit] = color_ink if (pix & (1 << bit)) else color_paper
Pixels(i, pix) ==
    [k \in 1 .. 8 |->
        IF (pix \div (2 ^ (8 - k))) % 2 = 1 THEN colormap(i)[1] ELSE colormap(i)[2]]

InitPixel ==
    /\ \E i \in 0 .. 255 : event = Ev("pixelmap", "colormap", i, 0)
    /\ prevEvent = NoEvent
    /\ mem = EmptyMem
    /\ cpu = ResetCpu
    /\ bus = NewBus(Plain)
    /\ pc = "pixelmap"
    /\ limit = 0
    /\ steps = 0
    /\ nmis = 0

PixelPass ==
    /\ pc = "pixelmap"
    /\ event.n < 256
    /\ mem' = Place(event.address * STRIDE + event.n * 8, Pixels(event.address, event.n))
    /\ Log(Ev("pixelmap", "init_pixelmap", event.address, event.n + 1))
    /\ UNCHANGED <<cpu, bus, pc, limit, steps, nmis>>

NextPixel == PixelPass

PixelSpec == InitPixel /\ [][NextPixel]_vars

\* C27: pixelmap[attr*2048 + pix*8 + (7-b)] is the ink index when bit b of pix
\* is set and the paper index otherwise, with ink = (attr & 7) + 8*bright,
\* paper = ((attr >> 3) & 7) + 8*bright and bright = bit 6 of attr.
C27_Written == pc = "pixelmap" /\ event.name = "init_pixelmap"

C27_Attr == event.address

C27_Pix == event.n - 1

C27_Bright == (C27_Attr \div 64) % 2

C27_Ink == (C27_Attr % 8) + 8 * C27_Bright

C27_Paper == ((C27_Attr \div 8) % 8) + 8 * C27_Bright

C27_Pixelmap ==
    C27_Written
    => \A b \in 0 .. 7 :
          /\ C27_Attr * 2048 + C27_Pix * 8 + (7 - b) \in DOMAIN mem
          /\ mem[C27_Attr * 2048 + C27_Pix * 8 + (7 - b)]
                = IF (C27_Pix \div (2 ^ b)) % 2 = 1 THEN C27_Ink ELSE C27_Paper

\* attr = 0xF1 (flash, bright, paper 6, ink 1) and pix = 0x81: ink 9 in the
\* two outer cells, paper 14 between
C27_Witness ==
    /\ C27_Written
    /\ C27_Attr = 241 /\ C27_Pix = 129
    /\ mem[241 * 2048 + 129 * 8] = 9
    /\ mem[241 * 2048 + 129 * 8 + 1] = 14
    /\ mem[241 * 2048 + 129 * 8 + 7] = 9


\* ---------------------------------------------------------------------------
\* C28: a DDCB/FDCB rotate, shift, RES or SET whose low three bits r are not 6
\* stores the byte it writes at (IX|IY)+d in the register r selects as well
\* (0=B, 1=C, 2=D, 3=E, 4=H, 5=L, 7=A); with r = 6 no 8-bit register changes;
\* the BIT variants write neither memory nor a register.

\* the pass runs DD CB d op or FD CB d op: DD or FD is pending, or is met now
C28_Case ==
    /\ LoopPass /\ pc = "fetch" /\ ~cpu.halted
    /\ \/ cpu.prefixOpcode \in {221, 253} /\ MemPeekb(mem, cpu.regPC) = 203
       \/ /\ cpu.prefixOpcode = 0
          /\ MemPeekb(mem, cpu.regPC) \in {221, 253}
          /\ MemPeekb(mem, (cpu.regPC + 1) % 65536) = 203

C28_Prefix ==
    IF cpu.prefixOpcode = 0 THEN MemPeekb(mem, cpu.regPC) ELSE cpu.prefixOpcode

\* where the displacement lies
C28_At == (cpu.regPC + (IF cpu.prefixOpcode = 0 THEN 2 ELSE 1)) % 65536

C28_Op == MemPeekb(mem, (C28_At + 1) % 65536)

C28_Address ==
    ((IF C28_Prefix = 221 THEN cpu.regIX ELSE cpu.regIY) + MemPeeksb(mem, C28_At)) % 65536

\* the registers in the order of r; r = 6 selects none
C28_Registers(c) == <<c.regB, c.regC, c.regD, c.regE, c.regH, c.regL, 0, c.regA>>

C28_Selected(c) == C28_Registers(c)[(C28_Op % 8) + 1]

C28_OriginalStep ==
    C28_Case
    => CASE C28_Op \in 64 .. 127 ->
               mem' = mem /\ C28_Registers(cpu') = C28_Registers(cpu)
         [] C28_Op % 8 = 6 -> C28_Registers(cpu') = C28_Registers(cpu)
         [] OTHER -> C28_Address >= 16384 => C28_Selected(cpu') = MemPeekb(mem', C28_Address)

C28_Original == [][C28_OriginalStep]_vars


\* ---------------------------------------------------------------------------
\* C30: the byte a DDCB/FDCB opcode writes at (IX|IY)+d and the flags S, Z, H,
\* P/V, N and C it leaves are those of the CB opcode of the same operation on
\* (HL), HL holding the same address and memory the same byte.

\* the CB opcode of the same operation on (HL): the low three bits are 6
C30_OnHL == (C28_Op - (C28_Op % 8)) + 6

\* the machine after that CB opcode, run with HL = (IX|IY)+d
C30_Reference == CbDict(C30_OnHL, [Machine EXCEPT !.cpu = set_reg_HL(@, C28_Address)])

C30_Documented(c) == <<BitAnd(c.sz5h3pnFlags, 255 - FLAG_53_MASK), c.carryFlag>>

C30_OriginalStep ==
    C28_Case
    => /\ C30_Documented(cpu') = C30_Documented(C30_Reference.cpu)
       /\ MemPeekb(mem', C28_Address) = MemPeekb(C30_Reference.mem, C28_Address)

C30_Original == [][C30_OriginalStep]_vars


\* C29 (as stated): in every frame loop, when the first instruction of a
\* frame is about to be fetched, the bus's next_screen_byte_index is 0, in
\* the first frame and in every later one
C29_Original ==
    (/\ pc = "fetch"
     /\ event.kind = "frame"
     /\ event.name \in {"start", "execute"})
        => bus.next_screen_byte_index = 0

-----------------------------------------------------------------------------
(* C31: for every n in {0x00, 0x08, .., 0x38}, RST n (opcode 0xC7 | n) pushes
   the address of the following instruction, decreases SP by 2, sets PC and
   MEMPTR to n, takes 11 T-states when nothing is contended, and changes
   neither A nor any flag. *)
C31_Opcode == MemPeekb(mem, cpu.regPC)

\* the loop pass fetches an RST opcode with no prefix pending
C31_Case ==
    /\ LoopPass
    /\ ~cpu.halted
    /\ cpu.prefixOpcode = 0
    /\ C31_Opcode \in {199 + 8 * k : k \in 0 .. 7}

C31_Uncontended == ~IsContended(cpu.regPC) /\ StackUncontended

C31_OriginalStep ==
    C31_Case
    => /\ PushedWord((cpu.regPC + 1) % 65536)
       /\ cpu'.regPC = C31_Opcode - 199
       /\ cpu'.memptr = C31_Opcode - 199
       /\ C31_Uncontended => bus'.tstates = bus.tstates + 11
       /\ cpu'.regA = cpu.regA
       /\ cpu'.sz5h3pnFlags = cpu.sz5h3pnFlags
       /\ cpu'.carryFlag = cpu.carryFlag

C31_Original == [][C31_OriginalStep]_vars

-----------------------------------------------------------------------------
(* C32: each immediate ALU instruction (ADD, ADC, SUB, SBC, AND, XOR, OR,
   CP A,n; opcodes C6, CE, D6, DE, E6, EE, F6, FE) reads one operand byte at
   PC with one 3-T-state read, 7 T-states in all when nothing is contended,
   advances PC by 2, and leaves A and the flags as the register-operand
   instruction of the same operation leaves them for that byte. *)
C32_Opcode == MemPeekb(mem, cpu.regPC)

C32_Case ==
    /\ LoopPass
    /\ ~cpu.halted
    /\ cpu.prefixOpcode = 0
    /\ C32_Opcode \in {198 + 8 * k : k \in 0 .. 7}

\* the operand byte, behind the opcode
C32_Operand == MemPeekb(mem, (cpu.regPC + 1) % 65536)

\* op A,B of the same operation run with the operand in B
C32_Reference == AluAB((C32_Opcode - 198) \div 8, [Machine EXCEPT !.cpu.regB = C32_Operand])

C32_OriginalStep ==
    C32_Case
    => /\ cpu'.regPC = (cpu.regPC + 2) % 65536
       /\ (bus.cls = Plain \/ ~IsContended(cpu.regPC))
             => bus'.tstates = bus.tstates + 4 + 3
       /\ cpu'.regA = C32_Reference.cpu.regA
       /\ cpu'.sz5h3pnFlags = C32_Reference.cpu.sz5h3pnFlags
       /\ cpu'.carryFlag = C32_Reference.cpu.carryFlag

C32_Original == [][C32_OriginalStep]_vars

-----------------------------------------------------------------------------
(* C33: LD (nn),IX and LD (nn),IY (DD/FD 22 nn nn) write the value of the
   selected index register, low byte first, to nn and nn+1 and leave the
   register as it was, so that a following LD IX,(nn) / LD IY,(nn)
   (DD/FD 2A nn nn) reads the same value back, for every nn in RAM. *)
\* the loop pass fetches DD or FD and ix()/iy() dispatches `opcode` behind it
C33_Case(opcode) ==
    /\ LoopPass
    /\ ~cpu.halted
    /\ cpu.prefixOpcode = 0
    /\ MemPeekb(mem, cpu.regPC) \in {221, 253}
    /\ MemPeekb(mem, (cpu.regPC + 1) % 65536) = opcode

\* the operand nn of the instruction being dispatched
C33_NN == ReadWord(Machine, (cpu.regPC + 2) % 65536)

\* the index register the prefix selects
C33_Index(c) == IF MemPeekb(mem, cpu.regPC) = 221 THEN c.regIX ELSE c.regIY

\* the load stands right behind a store to the same nn with the same prefix
C33_BehindStore ==
    /\ event.name = "ldtonnid"
    /\ MemPeekb(mem, (cpu.regPC - 4) % 65536) = MemPeekb(mem, cpu.regPC)
    /\ MemPeekb(mem, (cpu.regPC - 3) % 65536) = 34
    /\ ReadWord(Machine, (cpu.regPC - 2) % 65536) = C33_NN

C33_OriginalStep ==
    /\ (C33_Case(34) /\ C33_NN >= 16384)
          => /\ MemPeekb(mem', C33_NN) = C33_Index(cpu) % 256
             /\ MemPeekb(mem', (C33_NN + 1) % 65536) = C33_Index(cpu) \div 256
             /\ cpu'.regIX = cpu.regIX
             /\ cpu'.regIY = cpu.regIY
    /\ (C33_Case(42) /\ C33_BehindStore /\ C33_NN >= 16384)
          => C33_Index(cpu') = C33_Index(cpu)

C33_Original == [][C33_OriginalStep]_vars

-----------------------------------------------------------------------------
(* C34: every DD/FD instruction that only reads a half of the index
   register (LD B/C/D/E/A,IXH|IXL|IYH|IYL and ADD/ADC/SUB/SBC/AND/XOR/OR/CP
   A with an index half) leaves IX and IY unchanged, and the LD forms store
   the selected half in the destination register, also when it is A. *)
C34_LdHigh == {68, 76, 84, 92, 124}
C34_LdLow == {69, 77, 85, 93, 125}
C34_AluHalf == {132 + 8 * k : k \in 0..7} \cup {133 + 8 * k : k \in 0..7}

\* the opcode behind the DD or FD the loop pass fetches
C34_Opcode == MemPeekb(mem, (cpu.regPC + 1) % 65536)

C34_Case(ops) ==
    /\ LoopPass
    /\ ~cpu.halted
    /\ cpu.prefixOpcode = 0
    /\ MemPeekb(mem, cpu.regPC) \in {221, 253}
    /\ C34_Opcode \in ops

\* the half of the selected index register the LD form reads
C34_Half ==
    LET id == IF MemPeekb(mem, cpu.regPC) = 221 THEN cpu.regIX ELSE cpu.regIY
    IN  IF C34_Opcode \in C34_LdHigh THEN id \div 256 ELSE id % 256

\* the destination register of the LD form, after the step
C34_Destination ==
    CASE C34_Opcode \in {68, 69}   -> cpu'.regB
      [] C34_Opcode \in {76, 77}   -> cpu'.regC
      [] C34_Opcode \in {84, 85}   -> cpu'.regD
      [] C34_Opcode \in {92, 93}   -> cpu'.regE
      [] C34_Opcode \in {124, 125} -> cpu'.regA

C34_KeepsIndex(ops) ==
    C34_Case(ops) => cpu'.regIX = cpu.regIX /\ cpu'.regIY = cpu.regIY

C34_Loads(ops) == C34_Case(ops) => C34_Destination = C34_Half

C34_OriginalStep ==
    /\ C34_KeepsIndex(C34_LdHigh \cup C34_LdLow \cup C34_AluHalf)
    /\ C34_Loads(C34_LdHigh \cup C34_LdLow)

C34_Original == [][C34_OriginalStep]_vars

-----------------------------------------------------------------------------
(* C35: uncontended, ADD HL,rr takes 11 T-states (4 for the opcode fetch and
   7 internal cycles) for each rr of BC, DE, HL, SP, and ADD IX,rr /
   ADD IY,rr takes 15 for each rr. *)
C35_Add16 == {9, 25, 41, 57}

\* the loop pass fetches ADD HL,rr
C35_CaseHL(ops) ==
    /\ LoopPass
    /\ ~cpu.halted
    /\ cpu.prefixOpcode = 0
    /\ MemPeekb(mem, cpu.regPC) \in ops

\* the loop pass fetches DD or FD with ADD IX|IY,rr behind it
C35_CaseID(ops) ==
    /\ LoopPass
    /\ ~cpu.halted
    /\ cpu.prefixOpcode = 0
    /\ MemPeekb(mem, cpu.regPC) \in {221, 253}
    /\ MemPeekb(mem, (cpu.regPC + 1) % 65536) \in ops

\* neither the opcode bytes nor the address IR put on the bus are contended
C35_Uncontended ==
    /\ ~IsContended(cpu.regPC)
    /\ ~IsContended((cpu.regPC + 1) % 65536)
    /\ ~IsContended(cpu.regI * 256)

C35_TakesHL(ops, n) ==
    (C35_CaseHL(ops) /\ C35_Uncontended) => bus'.tstates = bus.tstates + n

C35_TakesID(ops, n) ==
    (C35_CaseID(ops) /\ C35_Uncontended) => bus'.tstates = bus.tstates + n

C35_OriginalStep == C35_TakesHL(C35_Add16, 11) /\ C35_TakesID(C35_Add16, 15)

C35_Original == [][C35_OriginalStep]_vars

-----------------------------------------------------------------------------
(* C36: in the frame loop on the contended bus, with IFF1 set and pendingEI
   clear when the T-state counter enters a frame's interrupt window, exactly
   one maskable interrupt is accepted in that window, whatever is executing
   (an instruction, HALT, a chain of DD/FD prefixes): no execution carries
   the counter across the whole window without the acceptance check being
   made, and no second interrupt is accepted in the window unless the
   handler executes EI inside it. *)
RECURSIVE C36_NextCheck(_)

\* the loop `continue`s behind a pass that leaves a prefix pending, as long
\* as the counter is below the limit
C36_Continue(d) ==
    IF d.cpu.prefixOpcode = 0 \/ ~(d.bus.tstates < limit)
    THEN d
    ELSE C36_NextCheck(d)

\* the machine at the next acceptance check, or where execute() returns
C36_NextCheck(m) ==
    IF m.cpu.halted
    THEN [m EXCEPT !.bus = fetch_opcode(@, m.cpu.regPC)]
    ELSE C36_Continue(Dispatch(m))

\* the top of the loop behind an acceptance check or at the start of a frame
C36_AtLoopTop ==
    /\ pc = "fetch"
    /\ bus.tstates < limit
    /\ cpu.prefixOpcode = 0

\* is_active_INT() holds at the counter values a + 1 .. a + INTERRUPT_LENGTH - 1
\* for a = 0 and a = TSTATES_PER_INTERRUPT: from t the counter is carried
\* to t1 across all of them, and an acceptance check is made at t1 only
C36_Across(t, check) ==
    /\ check.cpu.prefixOpcode = 0
    /\ \E a \in {0, TSTATES_PER_INTERRUPT} :
          t <= a /\ check.bus.tstates >= a + INTERRUPT_LENGTH

C36_Crossed == C36_AtLoopTop /\ C36_Across(bus.tstates, C36_NextCheck(Machine))

\* an acceptance check with the counter inside the window
C36_CheckInWindow ==
    /\ pc = "check"
    /\ bus.cls = ZX48
    /\ \E a \in {0, TSTATES_PER_INTERRUPT} :
          a < bus.tstates /\ bus.tstates < a + INTERRUPT_LENGTH
    /\ ~cpu.activeNMI

C36_AcceptStep == pc = "check" /\ event'.kind = "int"

\* the check accepts the interrupt, and the acceptance leaves IFF1 clear, so
\* that no later check accepts another one before an EI
C36_OneAccepted ==
    /\ (C36_CheckInWindow /\ cpu.ffIFF1 /\ ~cpu.pendingEI) => C36_AcceptStep
    /\ C36_AcceptStep => (C36_CheckInWindow /\ ~cpu'.ffIFF1 /\ ~IntCondition(cpu', bus'))

C36_OriginalStep == ~C36_Crossed /\ C36_OneAccepted

C36_Original == [][C36_OriginalStep]_vars

\* the pass at the top of the loop leaves a prefix pending
C36_OpensChain == ~cpu.halted /\ Dispatch(Machine).cpu.prefixOpcode /= 0

(* C36, amended: the acceptance check is made behind every pass of the loop
   that leaves no prefix pending, HALT passes included; a check made inside
   the window with IFF1 set and pendingEI clear accepts the interrupt and
   leaves IFF1 clear; the counter is carried across the whole window
   without a check only by a chain of prefix bytes. *)
C36_WindowStep == (C36_Crossed => C36_OpensChain) /\ C36_OneAccepted

C36_Window == [][C36_WindowStep]_vars

\* the second HALT has waited for the window at the end of the frame and the
\* interrupt is accepted there
C36_Witness ==
    /\ event.kind = "int"
    /\ prevEvent.kind = "haltnop"
    /\ bus.cls = ZX48
    /\ bus.tstates > TSTATES_PER_INTERRUPT
    /\ ~cpu.ffIFF1
    /\ ~cpu.halted

-----------------------------------------------------------------------------
(* C37: an NMI or a maskable interrupt is serviced only at an instruction
   boundary with no prefix pending, never between a DD, FD, ED or CB prefix
   byte and the opcode it modifies, also when execute() returns between the
   prefix and the opcode and is called again. *)
\* the step services an NMI or a maskable interrupt
C37_Serviced == pc = "check" /\ event'.kind \in {"nmi", "int"}

\* the step is a call of reset()
C37_ResetStep == pc = "idle" /\ pc' = "idle" /\ nmis' = nmis

C37_BoundaryStep ==
    \* the service follows a completed instruction or a halted pass, and the
    \* address it pushes is the one the loop would have fetched from next
    /\ C37_Serviced => /\ cpu.prefixOpcode = 0
                       /\ event.kind \in {"instr", "haltnop"}
                       /\ PushedWord(cpu.regPC)
    \* with a prefix pending no acceptance check is made and the next pass
    \* of the loop is a fetch
    /\ cpu.prefixOpcode /= 0 => /\ pc /= "check"
                                /\ event.kind = "prefix"
                                /\ pc' = "check" => event'.kind = "instr"
    \* the pending prefix outlives the return of execute(), trigger_NMI()
    \* and the next call
    /\ (cpu.prefixOpcode /= 0 /\ (pc = "idle" \/ pc' = "idle") /\ ~C37_ResetStep)
          => cpu'.prefixOpcode = cpu.prefixOpcode

C37_Boundary == [][C37_BoundaryStep]_vars

\* an NMI triggered while execute() had returned behind ED DD is serviced
\* behind the EI that the pending DD modified
C37_Witness ==
    /\ event.kind = "nmi"
    /\ prevEvent.kind = "instr"
    /\ prevEvent.name = "ei"
    /\ MemPeekb(mem, (prevEvent.address - 1) % 65536) = 221
    /\ MemPeekb(mem, (prevEvent.address - 2) % 65536) = 237
    /\ cpu.prefixOpcode = 0

-----------------------------------------------------------------------------
(* C38: servicing an NMI and returning with RETN restores the interrupt
   enable state: the NMI clears IFF1 and leaves IFF2 untouched, no
   instruction other than EI, DI and interrupt acceptance changes IFF2, and
   RETN copies IFF2 into IFF1; so after NMI ... RETN with no EI/DI in
   between IFF1 is the IFF2 from before the NMI and PC is the address the
   NMI pushed. *)
C38_NmiStep == pc = "check" /\ event'.kind = "nmi"

\* the loop pass executes RETN
C38_RetnStep == LoopPass /\ pc' = "check" /\ event'.name = "retn"

\* the step is a call of reset(), which is no instruction
C38_ResetStep == pc = "idle" /\ pc' = "idle" /\ nmis' = nmis

\* the steps that may change IFF2: EI, DI, the acceptance of a maskable
\* interrupt
C38_MayChangeIFF2 ==
    \/ LoopPass /\ event'.name \in {"ei", "di"}
    \/ pc = "check" /\ event'.kind = "int"

\* both bytes of the word on top of the stack are in RAM
C38_StackInRam == cpu.regSP >= 16384 /\ (cpu.regSP + 1) % 65536 >= 16384

C38_RestoreStep ==
    /\ C38_NmiStep => /\ ~cpu'.ffIFF1
                      /\ cpu'.ffIFF2 = cpu.ffIFF2
                      /\ PushedWord(cpu.regPC)
    /\ (cpu'.ffIFF2 /= cpu.ffIFF2 /\ ~C38_ResetStep) => C38_MayChangeIFF2
    /\ C38_RetnStep => /\ cpu'.ffIFF1 = cpu.ffIFF2
                       /\ cpu'.ffIFF2 = cpu.ffIFF2
                       /\ cpu'.regPC = ReadWord(Machine, cpu.regSP)
    \* RETN is the first instruction behind the NMI: event is still the
    \* NMI's, with the address that was pushed
    /\ (C38_RetnStep /\ event.kind = "nmi" /\ C38_StackInRam)
          => cpu'.regPC = event.address

C38_Restore == [][C38_RestoreStep]_vars

\* an NMI taken with interrupts enabled and left with RETN: IFF1 is set
\* again and PC is back where the NMI was serviced
C38_Witness ==
    /\ event.name = "retn"
    /\ prevEvent.kind = "nmi"
    /\ cpu.ffIFF1
    /\ cpu.ffIFF2
    /\ cpu.regPC = prevEvent.address

-----------------------------------------------------------------------------
(* C39: while the frame loop runs no table access of the contended bus is
   out of range: the T-state counter used as index into the contention
   table lies in [0, TSTATES_PER_INTERRUPT + 200), and
   next_screen_byte_index never exceeds the index of the last (sentinel)
   entry of screen_byte_tstate, whose value 2 * TSTATES_PER_INTERRUPT is
   never reached by the counter. *)
C39_InRange(b) ==
    /\ 0 <= b.tstates
    /\ b.tstates < DelayLen
    /\ 0 <= b.next_screen_byte_index
    /\ b.next_screen_byte_index <= ScreenLen - 1
    /\ ScreenByteTstate(ScreenLen - 1) = 2 * TSTATES_PER_INTERRUPT
    /\ b.tstates < ScreenByteTstate(ScreenLen - 1)

\* the step is bus_access.end_frame(), the one step that lowers the counter
C39_EndFrameStep == pc = "ended" /\ pc' = "idle"

\* the indices a step uses lie between the counter before and after it
C39_TablesStep ==
    /\ C39_InRange(bus)
    /\ C39_InRange(bus')
    /\ ~C39_EndFrameStep => bus.tstates <= bus'.tstates

C39_Tables == [][C39_TablesStep]_vars

\* an interrupt accepted behind the end of the frame has pushed PC into
\* contended RAM, with the counter above TSTATES_PER_INTERRUPT as index and
\* the screen index at the sentinel
C39_Witness ==
    /\ event.kind = "int"
    /\ bus.cls = ZX48
    /\ bus.tstates > TSTATES_PER_INTERRUPT + INTERRUPT_LENGTH
    /\ IsContended(cpu.regSP)
    /\ bus.next_screen_byte_index = ScreenLen - 1

====
